---- MODULE Spec2Model ----
(***************************************************************************)
(* A model of barectf-parser: the plan built by Parser::new from a         *)
(* configuration, the alignment tracking StreamReader, the blocking        *)
(* Parser::parse and the incremental PacketDecoder::decode.                *)
(*                                                                         *)
(* Conventions.                                                            *)
(*   Option<T>   is a sequence: <<>> is None, <<x>> is Some(x).            *)
(*   Size        is the number of bits of the variant (Bits8 is 8, ...).   *)
(*   usize/u64   values read from the wire are exact below Huge and are    *)
(*               Huge from there on (a byte count no modelled source can   *)
(*               supply); a wrapped subtraction is Huge as well.           *)
(*   Result      a reader record threads the source, the consumed byte     *)
(*               count, the bit cursor, the first error (`?` in the code)  *)
(*               and the first failed debug assertion or overflow check.   *)
(***************************************************************************)
EXTENDS Integers, Sequences, FiniteSets, TLC

\* ------------------------------------------------------------------ bounds
\* Packets in a generated byte stream.
MaxPackets == 2
\* Event records in a generated packet.
MaxEvents == 2
\* Trailing padding bytes of a generated packet.
MaxPad == 1
\* Bytes that arrive at the decoder in one read, short of all that is left.
MaxChunk == 3
\* Values read from the wire saturate here.
Huge == 1048576

\* ------------------------------------------------------------- small helpers
None == <<>>
Some(x) == <<x>>
IsSome(o) == Len(o) > 0
Unwrap(o) == o[1]

Min(a, b) == IF a < b THEN a ELSE b
Max(a, b) == IF a > b THEN a ELSE b

NoErr == "none"
NoPanic == "none"

\* Size::from_bits
Size_from_bits(bits) ==
    IF bits \in {8, 16, 32, 64} THEN Some(bits) ELSE None

\* ------------------------------------------------------------ AlignedCursor
\* AlignedCursor::cursor_bytes
cursor_bytes(bit_index) == bit_index \div 8

\* A variant of AlignedCursor::align_to that leaves the cursor where it is.
AlignedCursor_align_to_unmoved(bit_index, align) ==
    [cursor |-> bit_index, padding |-> 0]

\* A variant of AlignedCursor::align_to that moves to the multiple of align
\* above the cursor.
AlignedCursor_align_to_above(bit_index, align) ==
    [cursor |-> bit_index + align - (bit_index % align),
     padding |-> align - (bit_index % align)]

\* AlignedCursor::align_to: next_index = (bit_index + (a - 1)) & (!a + 1).
\* !a + 1 is the two's complement of a; for a power of two a the mask clears
\* the low bits, which is x - (x % a).  Returns the new index and the padding.
AlignedCursor_align_to(bit_index, align) ==
    LET x == bit_index + (align - 1)
        next_index == x - (x % align)
        padding == next_index - bit_index
    IN  [cursor |-> bit_index + padding, padding |-> padding]

\* AlignedCursor::increment
AlignedCursor_increment(bit_index, size) == bit_index + size

\* AlignedCursor::aligned_increment
AlignedCursor_aligned_increment(bit_index, desc) ==
    AlignedCursor_increment(
        AlignedCursor_align_to(bit_index, desc.alignment).cursor, desc.size)

\* ------------------------------------------------------------- StreamReader
\* ByteOrdered::read_uN: the bytes of one integer, most significant first.
RECURSIVE FoldBytes(_, _, _)
FoldBytes(bytes, i, acc) ==
    IF i > Len(bytes) THEN acc
    ELSE FoldBytes(bytes, i + 1, Min(acc * 256 + bytes[i], Huge))

Reverse(s) == [i \in 1..Len(s) |-> s[Len(s) + 1 - i]]

\* The bytes of a field as read, most significant first.
MsbFirst(byte_order, bytes) ==
    IF byte_order = "little-endian" THEN Reverse(bytes) ELSE bytes

FromBytes(byte_order, bytes) == FoldBytes(MsbFirst(byte_order, bytes), 1, 0)

\* The two's complement reading of an unsigned value (read_i8 .. read_i64).
\* Exact for the 8 and 16 bit widths; wider values below Huge are positive.
ToSigned(v, size) ==
    IF size = 8 /\ v >= 128 THEN v - 256
    ELSE IF size = 16 /\ v >= 32768 THEN v - 65536
    ELSE v

\* StreamReader::new_with_cursor
StreamReader_new_with_cursor(byte_order, cursor, src, debug) ==
    [byte_order |-> byte_order, src |-> src, pos |-> 0, cursor |-> cursor,
     err |-> NoErr, errval |-> 0, panic |-> NoPanic, debug |-> debug,
     aligned |-> TRUE, warnings |-> <<>>, val |-> 0, raw |-> <<>>,
     start |-> cursor, tracks |-> TRUE]

\* StreamReader::new
StreamReader_new(byte_order, src, debug) ==
    StreamReader_new_with_cursor(byte_order, 0, src, debug)

Failed(r) == r.err # NoErr \/ r.panic # NoPanic

\* `tracks` records that after every read so far the cursor was the cursor the
\* reader was made with plus 8 times the bytes it has taken from the source.
Tracking(r) == [r EXCEPT !.tracks = @ /\ (r.cursor = r.start + 8 * r.pos)]

\* The `?` operator: an error (or a panic) ends the function with it, anything
\* else goes on to the rest of the function.
Try(r, Rest(_)) == IF Failed(r) THEN r ELSE Rest(r)

\* The inner reader runs out of bytes: read_exact takes what is left and
\* fails with UnexpectedEof.
Eof(r) == [r EXCEPT !.pos = Len(r.src), !.err = "Io"]

\* StreamReader::align_to: the cursor moves first, then the padding is read one
\* byte at a time.
StreamReader_align_to(r, align) ==
    IF Failed(r) THEN r
    ELSE LET a == AlignedCursor_align_to(r.cursor, align)
             padding_bytes == a.padding \div 8
             r1 == [r EXCEPT !.cursor = a.cursor]
         IN  IF r.pos + padding_bytes > Len(r.src) THEN Eof(r1)
             ELSE Tracking([r1 EXCEPT !.pos = @ + padding_bytes])

\* StreamReader::read_u8 .. read_f64: align, read size bits, advance the
\* cursor.  `aligned` records that every field so far began on its alignment;
\* `raw` keeps the bytes of the value, most significant first.
StreamReader_read(r, size, align) ==
    Try(StreamReader_align_to(r, align), LAMBDA r1 :
        IF r1.pos + (size \div 8) > Len(r1.src) THEN Eof(r1)
        ELSE Tracking([r1 EXCEPT
                !.pos = @ + (size \div 8),
                !.cursor = AlignedCursor_increment(@, size),
                !.aligned = @ /\ (r1.cursor % align = 0),
                !.raw = MsbFirst(r1.byte_order,
                                 SubSeq(r1.src, r1.pos + 1, r1.pos + (size \div 8))),
                !.val = FromBytes(r1.byte_order,
                                  SubSeq(r1.src, r1.pos + 1, r1.pos + (size \div 8)))]))

\* StreamReader::read_string: align to 8, read bytes up to and including the
\* null terminator, each byte advancing the cursor by 8.
RECURSIVE read_string_loop(_, _)
read_string_loop(r, cstr) ==
    IF r.pos + 1 > Len(r.src) THEN Eof(r)
    ELSE LET b == r.src[r.pos + 1]
             r1 == Tracking([r EXCEPT !.pos = @ + 1,
                                      !.cursor = AlignedCursor_increment(@, 8)])
         IN  IF b = 0 THEN [r1 EXCEPT !.val = cstr]
             ELSE read_string_loop(r1, Append(cstr, b))

StreamReader_read_string(r) ==
    Try(StreamReader_align_to(r, 8), LAMBDA r1 :
        read_string_loop([r1 EXCEPT !.aligned = @ /\ (r1.cursor % 8 = 0)], <<>>))

\* ------------------------------------------------------- config: field types
\* config.rs field types.  A primitive field type is a record
\* [class, size, alignment, preferred_display_base, mappings]; a structure
\* member field type adds length and element_field_type (an Option) for the
\* two array classes.  String has no size or alignment of its own.
Classes == {"unsigned-integer", "signed-integer", "string", "real",
            "unsigned-enumeration", "signed-enumeration"}

\* impl FieldType for PrimitiveFieldType: size
PrimitiveFieldType_size(ft) == IF ft.class = "string" THEN 8 ELSE ft.size

\* impl FieldType for PrimitiveFieldType: alignment
PrimitiveFieldType_alignment(ft) ==
    IF ft.class = "string" THEN 8 ELSE ft.alignment

\* impl FieldType for StructureMemberFieldType: size (arrays: the element's)
FieldType_size(ft) ==
    IF ft.class \in {"static-array", "dynamic-array"}
    THEN PrimitiveFieldType_size(Unwrap(ft.element_field_type))
    ELSE PrimitiveFieldType_size(ft)

\* impl FieldType for StructureMemberFieldType: alignment
FieldType_alignment(ft) ==
    IF ft.class \in {"static-array", "dynamic-array"}
    THEN PrimitiveFieldType_alignment(Unwrap(ft.element_field_type))
    ELSE PrimitiveFieldType_alignment(ft)

\* The maximum of a sequence of alignments, or the default when it is empty.
RECURSIVE SeqMax(_, _)
SeqMax(s, default) ==
    IF Len(s) = 0 THEN default
    ELSE IF Len(s) = 1 THEN s[1]
    ELSE Max(s[1], SeqMax(Tail(s), default))

\* default_alignment_bits
default_alignment_bits == 8

\* A variant of StructureFieldType::alignment that takes the alignment of the
\* first member.
StructureFieldType_alignment_first(members) ==
    IF Len(members) = 0 THEN default_alignment_bits
    ELSE FieldType_alignment(members[1].field_type)

\* StructureFieldType::alignment and PacketContextExtraMembers::alignment
StructureFieldType_alignment(members) ==
    SeqMax([i \in 1..Len(members) |-> FieldType_alignment(members[i].field_type)],
           default_alignment_bits)

\* FeaturesUnsignedIntegerFieldType::alignment
FeaturesUnsignedIntegerFieldType_alignment(oft) ==
    IF IsSome(oft) THEN Unwrap(oft).alignment ELSE 0

\* TraceTypeFeatures::alignment
TraceTypeFeatures_alignment(cfg) ==
    SeqMax(<<FeaturesUnsignedIntegerFieldType_alignment(cfg.magic_field_type),
             IF cfg.uuid_field_type THEN default_alignment_bits ELSE 0,
             cfg.data_stream_type_id_field_type.alignment>>, 0)

\* DataStreamTypePacketFeatures::alignment
DataStreamTypePacketFeatures_alignment(st) ==
    SeqMax(<<st.total_size_field_type.alignment,
             st.content_size_field_type.alignment,
             FeaturesUnsignedIntegerFieldType_alignment(st.beginning_timestamp_field_type),
             FeaturesUnsignedIntegerFieldType_alignment(st.end_timestamp_field_type),
             FeaturesUnsignedIntegerFieldType_alignment(
                 st.discarded_event_records_counter_snapshot_field_type),
             FeaturesUnsignedIntegerFieldType_alignment(st.sequence_number_field_type)>>, 0)

\* DataStreamTypeEventRecordFeatures::alignment
DataStreamTypeEventRecordFeatures_alignment(st) ==
    Max(st.type_id_field_type.alignment, st.timestamp_field_type.alignment)

\* --------------------------------------------------------- plan: field parsers
Ok(v) == [ok |-> TRUE, v |-> v, size |-> 0, alignment |-> 0]
\* FieldUnsupportedError(size, alignment)
FieldUnsupportedError(size, alignment) ==
    [ok |-> FALSE, v |-> 0, size |-> size, alignment |-> alignment]

\* A variant of FieldDesc::from_ft that validates the size alone.
FieldDesc_from_ft_size_only(size, alignment) ==
    IF IsSome(Size_from_bits(size))
    THEN Ok([size |-> size, alignment |-> alignment])
    ELSE FieldUnsupportedError(size, alignment)

\* FieldDesc::from_ft, on the size and the alignment the field type reports
FieldDesc_from_ft(size, alignment) ==
    IF IsSome(Size_from_bits(size)) /\ IsSome(Size_from_bits(alignment))
    THEN Ok([size |-> Unwrap(Size_from_bits(size)),
             alignment |-> Unwrap(Size_from_bits(alignment))])
    ELSE FieldUnsupportedError(size, alignment)

\* UIntParser::from_uint_ft
UIntParser_from_uint_ft(ft) == FieldDesc_from_ft(ft.size, ft.alignment)

\* UIntParser::from_opt_uint_ft
UIntParser_from_opt_uint_ft(oft) ==
    IF ~IsSome(oft) THEN Ok(None)
    ELSE LET d == UIntParser_from_uint_ft(Unwrap(oft))
         IN  IF d.ok THEN Ok(Some(d.v)) ELSE d

\* The PrimitiveFieldTypeParser variant of a field type class.
KindOf(class) ==
    CASE class = "unsigned-integer" -> "UInt"
      [] class = "signed-integer" -> "Int"
      [] class = "string" -> "String"
      [] class = "real" -> "Real"
      [] class = "unsigned-enumeration" -> "UEnum"
      [] class = "signed-enumeration" -> "Enum"

\* PrimitiveFieldTypeParser::from_ft
PrimitiveFieldTypeParser_from_ft(ft) ==
    LET d == FieldDesc_from_ft(PrimitiveFieldType_size(ft),
                               PrimitiveFieldType_alignment(ft))
    IN  IF d.ok THEN Ok([kind |-> KindOf(ft.class), desc |-> d.v]) ELSE d

\* FieldTypeParser::from_ft
FieldTypeParser_from_ft(ft) ==
    LET d == FieldDesc_from_ft(FieldType_size(ft), FieldType_alignment(ft))
    IN  IF ~d.ok THEN d
        ELSE IF ft.class = "static-array"
        THEN LET p == PrimitiveFieldTypeParser_from_ft(Unwrap(ft.element_field_type))
             IN  IF p.ok THEN Ok([tag |-> "StaticArray", len |-> ft.length, p |-> p.v])
                 ELSE p
        ELSE IF ft.class = "dynamic-array"
        THEN LET p == PrimitiveFieldTypeParser_from_ft(Unwrap(ft.element_field_type))
             IN  IF p.ok THEN Ok([tag |-> "DynamicArray", len |-> 0, p |-> p.v])
                 ELSE p
        ELSE Ok([tag |-> "Primitive", len |-> 0,
                 p |-> [kind |-> KindOf(ft.class), desc |-> d.v]])

\* FieldTypeParser::desc (for an array, the descriptor of one element)
FieldTypeParser_desc(ftp) == ftp.p.desc

\* The names and labels the model's configurations use, in str::cmp order.
NameOrder == <<"A", "B", "C", "HIGH", "LOW", "alpha", "beta", "default", "gamma",
               "init", "shutdown", "stream_a", "stream_b">>
NameRank(name) == CHOOSE i \in 1..Len(NameOrder) : NameOrder[i] = name

\* Itertools::sorted_by_key(|(name, _)| name.as_str()): a stable sort of
\* <<name, value>> pairs by name.  The maps of a Config are BTreeMaps keyed by
\* name: the model holds one as the pairs in the order of the schema, and its
\* iter() is the pairs sorted by key.
RECURSIVE InsertByKey(_, _)
InsertByKey(e, sorted) ==
    IF Len(sorted) = 0 THEN <<e>>
    ELSE IF NameRank(e[1]) < NameRank(sorted[1][1]) THEN <<e>> \o sorted
    ELSE <<sorted[1]>> \o InsertByKey(e, Tail(sorted))

\* A variant of sorted_by_key that leaves the pairs in the order of the schema.
schema_order(s) == s

RECURSIVE sorted_by_key(_)
sorted_by_key(s) ==
    IF Len(s) = 0 THEN <<>>
    ELSE InsertByKey(s[Len(s)], sorted_by_key(SubSeq(s, 1, Len(s) - 1)))

\* A variant of EnumerationMappings::from_struct_ft that keeps the mappings in
\* the order of the schema.
EnumerationMappings_from_struct_ft_unsorted(ft) ==
    IF ft.class \in {"unsigned-enumeration", "signed-enumeration"}
    THEN Some(ft.mappings) ELSE None

\* EnumerationMappings::from_struct_ft: t.mappings.iter() of the BTreeMap
\* yields the mappings in the order of their labels.
EnumerationMappings_from_struct_ft(ft) ==
    IF ft.class \in {"unsigned-enumeration", "signed-enumeration"}
    THEN Some(sorted_by_key(ft.mappings)) ELSE None

\* StructureMemberFieldType::preferred_display_base
FieldType_preferred_display_base(ft) ==
    IF ft.class \in {"static-array", "dynamic-array"}
    THEN LET e == Unwrap(ft.element_field_type)
         IN  IF e.class \in {"string", "real"} THEN None
             ELSE Some(e.preferred_display_base)
    ELSE IF ft.class \in {"string", "real"} THEN None
    ELSE Some(ft.preferred_display_base)

\* ------------------------------------------------------------- Parser::new
RECURSIVE Concat(_)
Concat(ss) == IF Len(ss) = 0 THEN <<>> ELSE Head(ss) \o Concat(Tail(ss))

\* Error::unsupported_ft / Error::UnsupportedFieldType, as one check of the
\* constructor: the result of a from_ft call and the error it maps to.
unsupported_ft(path, res) ==
    [ok |-> res.ok,
     err |-> [kind |-> "UnsupportedFieldType", path |-> path,
              size |-> res.size, alignment |-> res.alignment]]

\* Error::unsupported_alignment, on the Option Size::from_bits returned.
unsupported_alignment(path, osize) ==
    [ok |-> IsSome(osize),
     err |-> [kind |-> "UnsupportedAlignment", path |-> path,
              size |-> 0, alignment |-> 0]]

\* A variant of PacketHeaderParser::new that counts 8 bytes for the UUID.
PacketHeaderParser_new_short_uuid(magic, uuid, stream_id, alignment) ==
    LET c0 == AlignedCursor_align_to(0, alignment).cursor
        c1 == IF IsSome(magic)
              THEN AlignedCursor_aligned_increment(c0, Unwrap(magic)) ELSE c0
        c2 == IF uuid
              THEN AlignedCursor_increment(AlignedCursor_align_to(c1, 8).cursor, 64)
              ELSE c1
        c3 == AlignedCursor_aligned_increment(c2, stream_id)
    IN  [magic |-> magic, uuid |-> uuid, stream_id |-> stream_id,
         alignment |-> alignment, wire_size_hint |-> c3]

\* PacketHeaderParser::new: the wire size hint of the packet header.
PacketHeaderParser_new(magic, uuid, stream_id, alignment) ==
    LET c0 == AlignedCursor_align_to(0, alignment).cursor
        c1 == IF IsSome(magic)
              THEN AlignedCursor_aligned_increment(c0, Unwrap(magic)) ELSE c0
        c2 == IF uuid
              THEN AlignedCursor_increment(
                       AlignedCursor_increment(
                           AlignedCursor_align_to(c1, 8).cursor, 64), 64)
              ELSE c1
        c3 == AlignedCursor_aligned_increment(c2, stream_id)
    IN  [magic |-> magic, uuid |-> uuid, stream_id |-> stream_id,
         alignment |-> alignment, wire_size_hint |-> c3]

\* The cursor after aligned_increment over each extra member's descriptor.
RECURSIVE HintMembers(_, _, _)
HintMembers(c, members, i) ==
    IF i > Len(members) THEN c
    ELSE HintMembers(
             AlignedCursor_aligned_increment(c, FieldTypeParser_desc(members[i].value)),
             members, i + 1)

HintOpt(c, odesc) ==
    IF IsSome(odesc) THEN AlignedCursor_aligned_increment(c, Unwrap(odesc)) ELSE c

\* PacketContextParser::new: the wire size hint of header plus context.
PacketContextParser_new(args, packet_header_cursor) ==
    LET c0 == AlignedCursor_align_to(packet_header_cursor, args.alignment).cursor
        c1 == AlignedCursor_aligned_increment(c0, args.packet_size)
        c2 == AlignedCursor_aligned_increment(c1, args.content_size)
        c3 == HintOpt(c2, args.beginning_timestamp)
        c4 == HintOpt(c3, args.end_timestamp)
        c5 == HintOpt(c4, args.events_discarded)
        c6 == HintOpt(c5, args.sequence_number)
        c7 == HintMembers(c6, args.extra_members, 1)
    IN  [packet_size |-> args.packet_size,
         content_size |-> args.content_size,
         beginning_timestamp |-> args.beginning_timestamp,
         end_timestamp |-> args.end_timestamp,
         events_discarded |-> args.events_discarded,
         sequence_number |-> args.sequence_number,
         extra_members |-> args.extra_members,
         alignment |-> args.alignment,
         wire_size_hint |-> c7]

\* The EventPayloadMemberParser of each member of a structure (Parser::new's
\* member loops), and the checks its FieldTypeParser::from_ft calls make.
MemberParsers(members) ==
    [i \in 1..Len(members) |->
        [member_name |-> members[i].name,
         preferred_display_base |->
             FieldType_preferred_display_base(members[i].field_type),
         enum_mappings |-> EnumerationMappings_from_struct_ft(members[i].field_type),
         value |-> FieldTypeParser_from_ft(members[i].field_type).v]]

MemberChecks(prefix, members) ==
    [i \in 1..Len(members) |->
        unsupported_ft(prefix \o <<members[i].name>>,
                       FieldTypeParser_from_ft(members[i].field_type))]

\* An optional structure (common context, specific context, payload): the
\* checks in the order the constructor makes them, and the EventPayloadParser.
StructChecks(prefix, ostruct) ==
    IF ~IsSome(ostruct) THEN <<>>
    ELSE MemberChecks(prefix, Unwrap(ostruct))
         \o <<unsupported_alignment(
                  prefix, Size_from_bits(StructureFieldType_alignment(Unwrap(ostruct))))>>

StructParser(ostruct) ==
    IF ~IsSome(ostruct) THEN None
    ELSE Some([alignment |-> StructureFieldType_alignment(Unwrap(ostruct)),
               members |-> MemberParsers(Unwrap(ostruct))])

\* The per-event loop of Parser::new over the sorted event record types.
EventChecks(sname, events) ==
    Concat([i \in 1..Len(events) |->
        StructChecks(<<"stream", sname, "event-record-types", events[i][1],
                       "specific-context-field-type">>,
                     events[i][2].specific_context_field_type)
        \o StructChecks(<<"stream", sname, "event-record-types", events[i][1],
                          "payload-field-type">>,
                        events[i][2].payload_field_type)])

EventParsers(events) ==
    [i \in 1..Len(events) |->
        [event_name |-> events[i][1],
         log_level |-> events[i][2].log_level,
         specific_context |-> StructParser(events[i][2].specific_context_field_type),
         payload |-> StructParser(events[i][2].payload_field_type)]]

\* The packet context alignment Parser::new hands to PacketContextParser.
PacketContextAlignment(st) ==
    Max(DataStreamTypePacketFeatures_alignment(st),
        StructureFieldType_alignment(st.packet_context_field_type_extra_members))

\* The body of Parser::new's loop over the data stream types, for one stream:
\* its checks in source order.
StreamChecks(sname, st) ==
    LET f == <<"stream", sname>>
    IN  <<unsupported_ft(f \o <<"$features.packet.total-size-field-type">>,
              UIntParser_from_uint_ft(st.total_size_field_type)),
          unsupported_ft(f \o <<"$features.packet.content-size-field-type">>,
              UIntParser_from_uint_ft(st.content_size_field_type)),
          unsupported_ft(f \o <<"$features.packet.beginning-timestamp-field-type">>,
              UIntParser_from_opt_uint_ft(st.beginning_timestamp_field_type)),
          unsupported_ft(f \o <<"$features.packet.end-timestamp-field-type">>,
              UIntParser_from_opt_uint_ft(st.end_timestamp_field_type)),
          unsupported_ft(
              f \o <<"$features.packet.discarded-event-records-counter-snapshot-field-type">>,
              UIntParser_from_opt_uint_ft(
                  st.discarded_event_records_counter_snapshot_field_type)),
          unsupported_ft(f \o <<"$features.packet.sequence-number-field-type">>,
              UIntParser_from_opt_uint_ft(st.sequence_number_field_type))>>
        \o MemberChecks(f \o <<"packet-context-field-type-extra-members">>,
                        st.packet_context_field_type_extra_members)
        \o StructChecks(f \o <<"event-record-common-context-field-type">>,
                        st.event_record_common_context_field_type)
        \o EventChecks(sname, sorted_by_key(st.event_record_types))
        \o <<unsupported_alignment(f \o <<"$features.packet">>,
                 Size_from_bits(PacketContextAlignment(st))),
             unsupported_ft(f \o <<"$features.event-record.type-id-field-type">>,
                 UIntParser_from_uint_ft(st.type_id_field_type)),
             unsupported_ft(f \o <<"$features.event-record.timestamp-field-type">>,
                 UIntParser_from_uint_ft(st.timestamp_field_type)),
             unsupported_alignment(f \o <<"$features.event-record">>,
                 Size_from_bits(DataStreamTypeEventRecordFeatures_alignment(st)))>>

\* The StreamParser Parser::new inserts for one stream (all checks passed).
StreamParser_new(sname, st, packet_header_cursor) ==
    [stream_name |-> sname,
     packet_context |->
        PacketContextParser_new(
            [packet_size |-> UIntParser_from_uint_ft(st.total_size_field_type).v,
             content_size |-> UIntParser_from_uint_ft(st.content_size_field_type).v,
             beginning_timestamp |->
                 UIntParser_from_opt_uint_ft(st.beginning_timestamp_field_type).v,
             end_timestamp |->
                 UIntParser_from_opt_uint_ft(st.end_timestamp_field_type).v,
             events_discarded |->
                 UIntParser_from_opt_uint_ft(
                     st.discarded_event_records_counter_snapshot_field_type).v,
             sequence_number |->
                 UIntParser_from_opt_uint_ft(st.sequence_number_field_type).v,
             extra_members |->
                 MemberParsers(st.packet_context_field_type_extra_members),
             alignment |-> PacketContextAlignment(st)],
            packet_header_cursor),
     event_header |->
        [event_id |-> UIntParser_from_uint_ft(st.type_id_field_type).v,
         timestamp |-> UIntParser_from_uint_ft(st.timestamp_field_type).v,
         alignment |-> DataStreamTypeEventRecordFeatures_alignment(st)],
     common_context |-> StructParser(st.event_record_common_context_field_type),
     events |-> EventParsers(sorted_by_key(st.event_record_types))]

\* The checks of Parser::new up to the stream loop.
HeaderChecks(cfg) ==
    <<[ok |-> ~IsSome(cfg.magic_field_type) \/ Unwrap(cfg.magic_field_type).size = 32,
       err |-> [kind |-> "UnsupportedFieldType", path |-> <<"magic-field-type">>,
                size |-> IF IsSome(cfg.magic_field_type)
                         THEN Unwrap(cfg.magic_field_type).size ELSE 0,
                alignment |-> IF IsSome(cfg.magic_field_type)
                              THEN Unwrap(cfg.magic_field_type).alignment ELSE 0]],
      unsupported_ft(<<"magic-field-type">>,
                     UIntParser_from_opt_uint_ft(cfg.magic_field_type)),
      unsupported_ft(<<"data-stream-type-id-field-type">>,
                     UIntParser_from_uint_ft(cfg.data_stream_type_id_field_type)),
      unsupported_alignment(<<"trace.type.$features">>,
                            Size_from_bits(TraceTypeFeatures_alignment(cfg)))>>

FirstFailure(checks) ==
    LET bad == {i \in 1..Len(checks) : ~checks[i].ok}
    IN  IF bad = {} THEN None
        ELSE Some(checks[CHOOSE i \in bad : \A j \in bad : i <= j].err)

\* Parser::new: Err with the first failing check, in source order, or the
\* Parser.  Stream ids and event ids are the positions in the sorted order.
Parser_new(cfg) ==
    LET sorted == sorted_by_key(cfg.data_stream_types)
        checks == HeaderChecks(cfg)
                  \o Concat([i \in 1..Len(sorted) |->
                                StreamChecks(sorted[i][1], sorted[i][2])])
        failure == FirstFailure(checks)
        pkt_header ==
            PacketHeaderParser_new(
                UIntParser_from_opt_uint_ft(cfg.magic_field_type).v,
                cfg.uuid_field_type,
                UIntParser_from_uint_ft(cfg.data_stream_type_id_field_type).v,
                TraceTypeFeatures_alignment(cfg))
    IN  IF IsSome(failure)
        THEN [ok |-> FALSE, err |-> Unwrap(failure), parser |-> None]
        ELSE [ok |-> TRUE, err |-> None,
              parser |-> Some(
                 [byte_order |-> cfg.native_byte_order,
                  trace_uuid |-> cfg.uuid,
                  pkt_header |-> pkt_header,
                  streams |->
                     [i \in 1..Len(sorted) |->
                         StreamParser_new(sorted[i][1], sorted[i][2],
                                          pkt_header.wire_size_hint)]])]

\* ------------------------------------------------------------ field values
\* PrimitiveFieldValue, one record shape for every variant: t is the variant,
\* v the number (an F32/F64 is its bit pattern), s a String's bytes, base the
\* display base, label an Enumeration's Option label.
UnsignedInteger(v, base) ==
    [t |-> "UnsignedInteger", v |-> v, s |-> <<>>, base |-> base, label |-> None]
SignedInteger(v, base) ==
    [t |-> "SignedInteger", v |-> v, s |-> <<>>, base |-> base, label |-> None]
StringValue(bytes) ==
    [t |-> "String", v |-> 0, s |-> bytes, base |-> "Decimal", label |-> None]
F32(bits) == [t |-> "F32", v |-> bits, s |-> <<>>, base |-> "Decimal", label |-> None]
F64(bits) == [t |-> "F64", v |-> bits, s |-> <<>>, base |-> "Decimal", label |-> None]
Enumeration(v, base, label) ==
    [t |-> "Enumeration", v |-> v, s |-> <<>>, base |-> base, label |-> label]

\* FieldValue::Primitive and FieldValue::Array
Primitive(val) == [tag |-> "Primitive", items |-> <<val>>]
Array(vals) == [tag |-> "Array", items |-> vals]

\* EnumerationFieldTypeMappingSequence: InclusiveRange(min, max) or Value(v)
InclusiveRange(min, max) == [kind |-> "InclusiveRange", min |-> min, max |-> max]
Value(v) == [kind |-> "Value", min |-> v, max |-> v]

\* EnumerationFieldTypeMappingSequence::contains
MappingSequence_contains(seq, value) ==
    IF seq.kind = "InclusiveRange"
    THEN (value >= seq.min) /\ (value <= seq.max)
    ELSE seq.min = value

\* EnumerationMappings::label: the first mapping, in the order held, one of
\* whose value specs contains v.
EnumerationMappings_label(mappings, v) ==
    LET hits == {i \in 1..Len(mappings) :
                    \E k \in 1..Len(mappings[i][2]) :
                        MappingSequence_contains(mappings[i][2][k], v)}
    IN  IF hits = {} THEN None
        ELSE Some(mappings[CHOOSE i \in hits : \A j \in hits : i <= j][1])

\* ------------------------------------------------------------ field parsers
\* UIntParser::parse
UIntParser_parse(desc, r) == StreamReader_read(r, desc.size, desc.alignment)

\* UuidParser::parse: align to 8, then sixteen read_u8(Bits8)
RECURSIVE read_uuid_bytes(_, _, _)
read_uuid_bytes(r, n, acc) ==
    IF Failed(r) THEN r
    ELSE IF n = 0 THEN [r EXCEPT !.val = acc]
    ELSE Try(StreamReader_read(r, 8, 8), LAMBDA r1 :
             read_uuid_bytes(r1, n - 1, Append(acc, r1.val)))

UuidParser_parse(r) == read_uuid_bytes(StreamReader_align_to(r, 8), 16, <<>>)

\* A variant of PrimitiveFieldTypeParser::parse that reads 64-bit reals only.
PrimitiveFieldTypeParser_parse_f64_only(p, r) ==
    IF Failed(r) THEN r
    ELSE IF p.kind \in {"UInt", "UEnum"}
    THEN Try(StreamReader_read(r, p.desc.size, p.desc.alignment), LAMBDA r1 :
             [r1 EXCEPT !.val = UnsignedInteger(r1.val, "Decimal")])
    ELSE IF p.kind \in {"Int", "Enum"}
    THEN Try(StreamReader_read(r, p.desc.size, p.desc.alignment), LAMBDA r1 :
             [r1 EXCEPT !.val = SignedInteger(ToSigned(r1.val, p.desc.size),
                                              "Decimal")])
    ELSE IF p.kind = "String"
    THEN Try(StreamReader_read_string(r), LAMBDA r1 :
             [r1 EXCEPT !.val = StringValue(r1.val)])
    ELSE IF p.desc.size = 64
    THEN Try(StreamReader_read(r, p.desc.size, p.desc.alignment), LAMBDA r1 :
             [r1 EXCEPT !.val = F64(r1.val)])
    ELSE [r EXCEPT !.err = "InvalidFloatSize", !.errval = p.desc.size]

\* PrimitiveFieldTypeParser::parse
PrimitiveFieldTypeParser_parse(p, r) ==
    IF Failed(r) THEN r
    ELSE IF p.kind \in {"UInt", "UEnum"}
    THEN Try(StreamReader_read(r, p.desc.size, p.desc.alignment), LAMBDA r1 :
             [r1 EXCEPT !.val = UnsignedInteger(r1.val, "Decimal")])
    ELSE IF p.kind \in {"Int", "Enum"}
    THEN Try(StreamReader_read(r, p.desc.size, p.desc.alignment), LAMBDA r1 :
             [r1 EXCEPT !.val = SignedInteger(ToSigned(r1.val, p.desc.size),
                                              "Decimal")])
    ELSE IF p.kind = "String"
    THEN Try(StreamReader_read_string(r), LAMBDA r1 :
             [r1 EXCEPT !.val = StringValue(r1.val)])
    ELSE \* Real
         IF p.desc.size \in {32, 64}
         THEN Try(StreamReader_read(r, p.desc.size, p.desc.alignment), LAMBDA r1 :
                  [r1 EXCEPT !.val = IF p.desc.size = 32 THEN F32(r1.val)
                                     ELSE F64(r1.val)])
         ELSE [r EXCEPT !.err = "InvalidFloatSize", !.errval = p.desc.size]

\* The element loops of FieldTypeParser::parse.
RECURSIVE parse_elements(_, _, _, _)
parse_elements(p, r, n, arr) ==
    IF Failed(r) THEN r
    ELSE IF n = 0 THEN [r EXCEPT !.val = Array(arr)]
    ELSE Try(PrimitiveFieldTypeParser_parse(p, r), LAMBDA r1 :
             parse_elements(p, r1, n - 1, Append(arr, r1.val)))

\* A variant of FieldTypeParser::parse that reads the length of a dynamic
\* array at the alignment of its elements.
FieldTypeParser_parse_length_aligned(ftp, r) ==
    IF Failed(r) THEN r
    ELSE IF ftp.tag = "Primitive"
    THEN Try(PrimitiveFieldTypeParser_parse(ftp.p, r), LAMBDA r1 :
             [r1 EXCEPT !.val = Primitive(r1.val)])
    ELSE IF ftp.tag = "StaticArray"
    THEN parse_elements(ftp.p, StreamReader_align_to(r, ftp.p.desc.alignment),
                        ftp.len, <<>>)
    ELSE Try(StreamReader_read(r, 32, ftp.p.desc.alignment), LAMBDA r1 :
             parse_elements(ftp.p, StreamReader_align_to(r1, ftp.p.desc.alignment),
                            r1.val, <<>>))

\* FieldTypeParser::parse
FieldTypeParser_parse(ftp, r) ==
    IF Failed(r) THEN r
    ELSE IF ftp.tag = "Primitive"
    THEN Try(PrimitiveFieldTypeParser_parse(ftp.p, r), LAMBDA r1 :
             [r1 EXCEPT !.val = Primitive(r1.val)])
    ELSE IF ftp.tag = "StaticArray"
    THEN parse_elements(ftp.p, StreamReader_align_to(r, ftp.p.desc.alignment),
                        ftp.len, <<>>)
    ELSE \* DynamicArray: the u32 length is always byte-packed
         Try(StreamReader_read(r, 32, 8), LAMBDA r1 :
             parse_elements(ftp.p, StreamReader_align_to(r1, ftp.p.desc.alignment),
                            r1.val, <<>>))

\* Option<PreferredDisplayBase>::unwrap_or_default
unwrap_or_default(obase) == IF IsSome(obase) THEN Unwrap(obase) ELSE "Decimal"

\* A variant of the second half of EventPayloadMemberParser::parse that gives
\* the display base and the enumeration label to each element of an array too.
with_base_and_label_elements(m, fv) ==
    [fv EXCEPT !.items =
        [i \in 1..Len(fv.items) |->
            IF fv.items[i].t \in {"UnsignedInteger", "SignedInteger"}
            THEN IF IsSome(m.enum_mappings)
                 THEN Enumeration(
                          fv.items[i].v, unwrap_or_default(m.preferred_display_base),
                          EnumerationMappings_label(Unwrap(m.enum_mappings),
                                                    fv.items[i].v))
                 ELSE [fv.items[i] EXCEPT
                          !.base = unwrap_or_default(m.preferred_display_base)]
            ELSE fv.items[i]]]

\* EventPayloadMemberParser::parse, after the value is read: the display base
\* of a primitive integer, then the enumeration label of a primitive integer.
with_base_and_label(m, fv) ==
    IF fv.tag = "Primitive"
       /\ fv.items[1].t \in {"UnsignedInteger", "SignedInteger"}
    THEN IF IsSome(m.enum_mappings)
         THEN Primitive(Enumeration(
                  fv.items[1].v, unwrap_or_default(m.preferred_display_base),
                  EnumerationMappings_label(Unwrap(m.enum_mappings), fv.items[1].v)))
         ELSE Primitive([fv.items[1] EXCEPT
                  !.base = unwrap_or_default(m.preferred_display_base)])
    ELSE fv

\* EventPayloadMemberParser::parse
EventPayloadMemberParser_parse(m, r) ==
    Try(FieldTypeParser_parse(m.value, r), LAMBDA r1 :
        [r1 EXCEPT !.val = with_base_and_label(m, r1.val)])

\* The member loops of the stage parsers: each member's <<name, value>>.
RECURSIVE parse_members(_, _, _, _)
parse_members(members, r, i, acc) ==
    IF Failed(r) THEN r
    ELSE IF i > Len(members) THEN [r EXCEPT !.val = acc]
    ELSE Try(EventPayloadMemberParser_parse(members[i], r), LAMBDA r1 :
             parse_members(members, r1, i + 1,
                           Append(acc, <<members[i].member_name, r1.val>>)))

\* A structure begins here: record whether the cursor is on its alignment.
BeginsAligned(r, align) ==
    IF Failed(r) THEN r ELSE [r EXCEPT !.aligned = @ /\ (r.cursor % align = 0)]

\* An optional structure of an event record: align, then read each member.
parse_struct(ostruct, r) ==
    IF Failed(r) THEN r
    ELSE IF ~IsSome(ostruct) THEN [r EXCEPT !.val = <<>>]
    ELSE parse_members(
             Unwrap(ostruct).members,
             BeginsAligned(StreamReader_align_to(r, Unwrap(ostruct).alignment),
                           Unwrap(ostruct).alignment),
             1, <<>>)

\* debug_assert!: in a build with debug assertions a false condition panics.
debug_assert(r, cond, what) ==
    IF Failed(r) \/ ~r.debug \/ cond THEN r ELSE [r EXCEPT !.panic = what]

\* ------------------------------------------------------------ stage parsers
\* PacketHeader::MAGIC, 0xC1FC_1FC1, as the four bytes of the u32
MAGIC == <<193, 252, 31, 193>>

\* A variant of the warn! calls of Parser::parse_header that compares the UUID
\* with the schema's whether or not the schema has one.
header_warnings_any_uuid(schema_uuid, magic, trace_uuid) ==
    (IF IsSome(magic) /\ Unwrap(magic) # MAGIC THEN <<"magic">> ELSE <<>>)
    \o (IF IsSome(trace_uuid) /\ trace_uuid # schema_uuid
        THEN <<"uuid">> ELSE <<>>)

\* The warn! calls of Parser::parse_header, in the order they are made: one for
\* a magic number that is not PacketHeader::MAGIC, one for a UUID that is not
\* the trace type UUID of the schema, when the schema has one.
header_warnings(schema_uuid, magic, trace_uuid) ==
    (IF IsSome(magic) /\ Unwrap(magic) # MAGIC THEN <<"magic">> ELSE <<>>)
    \o (IF IsSome(trace_uuid) /\ IsSome(schema_uuid)
           /\ Unwrap(trace_uuid) # Unwrap(schema_uuid)
        THEN <<"uuid">> ELSE <<>>)

\* A variant of Parser::parse_header that reports an undefined stream id
\* without the id it read.
Parser_parse_header_no_id(parser, r) ==
    Try(BeginsAligned(StreamReader_align_to(r, parser.pkt_header.alignment),
                      parser.pkt_header.alignment), LAMBDA r0 :
    Try(IF IsSome(parser.pkt_header.magic)
        THEN UIntParser_parse(Unwrap(parser.pkt_header.magic), r0) ELSE r0, LAMBDA r1 :
    Try(IF parser.pkt_header.uuid THEN UuidParser_parse(r1) ELSE r1, LAMBDA r2 :
    Try(UIntParser_parse(parser.pkt_header.stream_id, r2), LAMBDA r3 :
        IF r3.val + 1 \notin 1..Len(parser.streams)
        THEN [r3 EXCEPT !.err = "UndefinedStreamId"]
        ELSE [r3 EXCEPT !.val =
                 [magic_number |->
                      IF IsSome(parser.pkt_header.magic) THEN Some(r1.raw) ELSE None,
                  trace_uuid |->
                      IF parser.pkt_header.uuid THEN Some(r2.val) ELSE None,
                  stream_id |-> r3.val,
                  stream_name |-> parser.streams[r3.val + 1].stream_name]]))))

\* Parser::parse_header.  The header read is [magic_number, trace_uuid,
\* stream_id, stream_name]; magic_number is the u32 as its four bytes, most
\* significant first; the clock name and clock type the code copies from the
\* configuration are left out.
Parser_parse_header(parser, r) ==
    Try(BeginsAligned(StreamReader_align_to(r, parser.pkt_header.alignment),
                      parser.pkt_header.alignment), LAMBDA r0 :
    Try(IF IsSome(parser.pkt_header.magic)
        THEN UIntParser_parse(Unwrap(parser.pkt_header.magic), r0) ELSE r0, LAMBDA r1 :
    Try(IF parser.pkt_header.uuid THEN UuidParser_parse(r1) ELSE r1, LAMBDA r2 :
    Try(UIntParser_parse(parser.pkt_header.stream_id, r2), LAMBDA r3 :
    Try(debug_assert(
            [r3 EXCEPT !.warnings = @ \o header_warnings(
                parser.trace_uuid,
                IF IsSome(parser.pkt_header.magic) THEN Some(r1.raw) ELSE None,
                IF parser.pkt_header.uuid THEN Some(r2.val) ELSE None)],
            r3.cursor = parser.pkt_header.wire_size_hint,
            "header wire_size_hint"), LAMBDA r4 :
        IF r3.val + 1 \notin 1..Len(parser.streams)
        THEN [r4 EXCEPT !.err = "UndefinedStreamId", !.errval = r3.val]
        ELSE [r4 EXCEPT !.val =
                 [magic_number |->
                      IF IsSome(parser.pkt_header.magic) THEN Some(r1.raw) ELSE None,
                  trace_uuid |->
                      IF parser.pkt_header.uuid THEN Some(r2.val) ELSE None,
                  stream_id |-> r3.val,
                  stream_name |-> parser.streams[r3.val + 1].stream_name]])))))

\* An optional packet context feature: read when the plan has it.
parse_opt(odesc, r) ==
    IF Failed(r) THEN r
    ELSE IF IsSome(odesc)
    THEN Try(UIntParser_parse(Unwrap(odesc), r), LAMBDA r1 :
             [r1 EXCEPT !.val = Some(r1.val)])
    ELSE [r EXCEPT !.val = None]

\* A variant of Parser::parse_packet_context that reads the sequence number
\* before the discarded event records counter.
Parser_parse_packet_context_seq_first(stream, r) ==
    Try(BeginsAligned(StreamReader_align_to(r, stream.packet_context.alignment),
                      stream.packet_context.alignment), LAMBDA r0 :
    Try(UIntParser_parse(stream.packet_context.packet_size, r0), LAMBDA r1 :
    Try(UIntParser_parse(stream.packet_context.content_size, r1), LAMBDA r2 :
    Try(parse_opt(stream.packet_context.beginning_timestamp, r2), LAMBDA r3 :
    Try(parse_opt(stream.packet_context.end_timestamp, r3), LAMBDA r4 :
    Try(parse_opt(stream.packet_context.sequence_number, r4), LAMBDA r6 :
    Try(parse_opt(stream.packet_context.events_discarded, r6), LAMBDA r5 :
    Try(parse_members(stream.packet_context.extra_members, r5, 1, <<>>), LAMBDA r7 :
        [r7 EXCEPT !.val =
            [packet_size_bits |-> r1.val,
             content_size_bits |-> r2.val,
             beginning_timestamp |-> r3.val,
             end_timestamp |-> r4.val,
             events_discarded |-> r5.val,
             sequence_number |-> r6.val,
             extra_members |-> r7.val]]))))))))

\* Parser::parse_packet_context
Parser_parse_packet_context(stream, r) ==
    Try(BeginsAligned(StreamReader_align_to(r, stream.packet_context.alignment),
                      stream.packet_context.alignment), LAMBDA r0 :
    Try(UIntParser_parse(stream.packet_context.packet_size, r0), LAMBDA r1 :
    Try(UIntParser_parse(stream.packet_context.content_size, r1), LAMBDA r2 :
    Try(parse_opt(stream.packet_context.beginning_timestamp, r2), LAMBDA r3 :
    Try(parse_opt(stream.packet_context.end_timestamp, r3), LAMBDA r4 :
    Try(parse_opt(stream.packet_context.events_discarded, r4), LAMBDA r5 :
    Try(parse_opt(stream.packet_context.sequence_number, r5), LAMBDA r6 :
    Try(parse_members(stream.packet_context.extra_members, r6, 1, <<>>), LAMBDA r7 :
    Try(debug_assert(r7, r7.cursor = stream.packet_context.wire_size_hint,
                     "packet context wire_size_hint"), LAMBDA r8 :
        [r8 EXCEPT !.val =
            [packet_size_bits |-> r1.val,
             content_size_bits |-> r2.val,
             beginning_timestamp |-> r3.val,
             end_timestamp |-> r4.val,
             events_discarded |-> r5.val,
             sequence_number |-> r6.val,
             extra_members |-> r7.val]])))))))))

\* A variant of the loop body of Parser::parse_events that looks the event id
\* up before it reads the common context.
parse_event_record_early_lookup(stream, r) ==
    Try(BeginsAligned(StreamReader_align_to(r, stream.event_header.alignment),
                      stream.event_header.alignment), LAMBDA r0 :
    Try(UIntParser_parse(stream.event_header.event_id, r0), LAMBDA r1 :
    Try(UIntParser_parse(stream.event_header.timestamp, r1), LAMBDA r2 :
        IF r1.val + 1 \notin 1..Len(stream.events)
        THEN [r2 EXCEPT !.err = "UndefinedEventId", !.errval = r1.val]
        ELSE
    Try(parse_struct(stream.common_context, r2), LAMBDA r3 :
    Try(parse_struct(stream.events[r1.val + 1].specific_context, r3), LAMBDA r4 :
    Try(parse_struct(stream.events[r1.val + 1].payload, r4), LAMBDA r5 :
        [r5 EXCEPT !.val =
            [id |-> r1.val,
             name |-> stream.events[r1.val + 1].event_name,
             timestamp |-> r2.val,
             log_level |-> stream.events[r1.val + 1].log_level,
             specific_context |-> r4.val,
             common_context |-> r3.val,
             payload |-> r5.val]]))))))

\* One iteration of the loop of Parser::parse_events, up to the push: the
\* event record read, or the error.
parse_event_record(stream, r) ==
    Try(BeginsAligned(StreamReader_align_to(r, stream.event_header.alignment),
                      stream.event_header.alignment), LAMBDA r0 :
    Try(UIntParser_parse(stream.event_header.event_id, r0), LAMBDA r1 :
    Try(UIntParser_parse(stream.event_header.timestamp, r1), LAMBDA r2 :
    Try(parse_struct(stream.common_context, r2), LAMBDA r3 :
        IF r1.val + 1 \notin 1..Len(stream.events)
        THEN [r3 EXCEPT !.err = "UndefinedEventId", !.errval = r1.val]
        ELSE
    Try(parse_struct(stream.events[r1.val + 1].specific_context, r3), LAMBDA r4 :
    Try(parse_struct(stream.events[r1.val + 1].payload, r4), LAMBDA r5 :
        [r5 EXCEPT !.val =
            [id |-> r1.val,
             name |-> stream.events[r1.val + 1].event_name,
             timestamp |-> r2.val,
             log_level |-> stream.events[r1.val + 1].log_level,
             specific_context |-> r4.val,
             common_context |-> r3.val,
             payload |-> r5.val]]))))))

\* A variant of the loop of Parser::parse_events that puts each event record
\* at the front of the list.
RECURSIVE parse_events_loop_front(_, _, _, _)
parse_events_loop_front(stream, packet_context, r, events) ==
    Try(parse_event_record(stream, r), LAMBDA r1 :
    Try(debug_assert(r1, r1.cursor <= packet_context.content_size_bits,
                     "cursor <= content_size_bits"), LAMBDA r2 :
        IF r2.cursor = packet_context.content_size_bits
        THEN [r2 EXCEPT !.val = <<r1.val>> \o events]
        ELSE parse_events_loop_front(stream, packet_context, r2,
                                     <<r1.val>> \o events)))

\* The loop of Parser::parse_events: read a record, push it, assert the cursor
\* has not passed the content size, stop when it is the content size.
RECURSIVE parse_events_loop(_, _, _, _)
parse_events_loop(stream, packet_context, r, events) ==
    Try(parse_event_record(stream, r), LAMBDA r1 :
    Try(debug_assert(r1, r1.cursor <= packet_context.content_size_bits,
                     "cursor <= content_size_bits"), LAMBDA r2 :
        IF r2.cursor = packet_context.content_size_bits
        THEN [r2 EXCEPT !.val = Append(events, r1.val)]
        ELSE parse_events_loop(stream, packet_context, r2, Append(events, r1.val))))

\* usize subtraction: a negative result panics where overflow checks are on
\* (the debug profile) and wraps to a huge value otherwise.
usize_sub(a, b) ==
    IF a >= b THEN [overflow |-> FALSE, v |-> a - b]
    ELSE [overflow |-> TRUE, v |-> Huge]

\* A variant of the end of Parser::parse_events that leaves the trailing bytes
\* of the packet in the source.
read_trailing_left(r, remaining_bits) ==
    IF remaining_bits.overflow /\ r.debug
    THEN [r EXCEPT !.panic = "packet_size_bits - content_size_bits"]
    ELSE r

\* The end of Parser::parse_events: the trailing bytes of the packet are read
\* from the inner reader and dropped; the cursor stays.
read_trailing(r, remaining_bits) ==
    IF remaining_bits.overflow /\ r.debug
    THEN [r EXCEPT !.panic = "packet_size_bits - content_size_bits"]
    ELSE IF r.pos + (remaining_bits.v \div 8) > Len(r.src) THEN Eof(r)
    ELSE [r EXCEPT !.pos = @ + (remaining_bits.v \div 8)]

\* Parser::parse_events
Parser_parse_events(stream, packet_context, r) ==
    Try(parse_events_loop(stream, packet_context, r, <<>>), LAMBDA r1 :
        read_trailing(r1, usize_sub(packet_context.packet_size_bits,
                                    packet_context.content_size_bits)))

\* ------------------------------------------------------------- Parser::parse
\* The outcome of one call: tag is "Ok" (pkt), "Err" (err, errval), "None"
\* (a decode call that needs more data) or "Panic" (panic); consumed is the
\* number of source bytes the call took; aligned is the reader's record that
\* every field and structure it read began on its alignment.
NoPacket == [header |-> None, context |-> None, events |-> <<>>]

Outcome(tag, pkt, r, consumed) ==
    [tag |-> tag, pkt |-> pkt, err |-> r.err, errval |-> r.errval,
     panic |-> r.panic, consumed |-> consumed, aligned |-> r.aligned,
     warnings |-> r.warnings, tracks |-> r.tracks]

\* What the caller of Parser::parse sees of the reader the call ended with.
ParseOutcome(r) ==
    IF r.panic # NoPanic THEN Outcome("Panic", NoPacket, r, r.pos)
    ELSE IF r.err # NoErr THEN Outcome("Err", NoPacket, r, r.pos)
    ELSE Outcome("Ok", r.val, r, r.pos)

\* Parser::parse over the bytes left in the source
Parser_parse(parser, src, debug) ==
    ParseOutcome(
        Try(Parser_parse_header(parser,
                StreamReader_new(parser.byte_order, src, debug)), LAMBDA r1 :
        Try(Parser_parse_packet_context(
                parser.streams[r1.val.stream_id + 1], r1), LAMBDA r2 :
        Try(Parser_parse_events(
                parser.streams[r1.val.stream_id + 1], r2.val, r2), LAMBDA r3 :
            [r3 EXCEPT !.val = [header |-> Some(r1.val),
                                context |-> Some(r2.val),
                                events |-> r3.val]]))))

\* ----------------------------------------------------- PacketDecoder::decode
\* PacketDecoderState
StateHeader == [tag |-> "Header", header |-> None, context |-> None, cursor |-> 0]
StatePacketContext(header, cursor) ==
    [tag |-> "PacketContext", header |-> Some(header), context |-> None,
     cursor |-> cursor]
StateEvents(header, context, cursor) ==
    [tag |-> "Events", header |-> Some(header), context |-> Some(context),
     cursor |-> cursor]

\* PacketContext::packet_size
PacketContext_packet_size(context) == context.packet_size_bits \div 8

\* What a call that ends here leaves: the decoder state, the buffer without
\* the bytes the reader took, and the outcome.  `taken` counts the bytes the
\* earlier stages of the call took.
DecodeEnd(state, tag, pkt, r, taken) ==
    [state |-> state, src |-> SubSeq(r.src, r.pos + 1, Len(r.src)),
     out |-> Outcome(tag, pkt, r, taken + r.pos)]

\* A variant of a stage's `?` that hands the bytes the stage has read back to
\* the buffer.
DecodeFailed_restoring(r, taken) ==
    IF r.panic # NoPanic THEN DecodeEnd(StateHeader, "Panic", NoPacket, r, taken)
    ELSE DecodeEnd(StateHeader, "Err", NoPacket, [r EXCEPT !.pos = 0], taken)

\* A stage's `?`: mem::replace has left Header in self.state.
DecodeFailed(r, taken) ==
    IF r.panic # NoPanic THEN DecodeEnd(StateHeader, "Panic", NoPacket, r, taken)
    ELSE DecodeEnd(StateHeader, "Err", NoPacket, r, taken)

\* The reader a stage makes over the buffer, at the cursor the state holds.
StageReader(parser, src, debug, cursor, aligned, warnings, tracks) ==
    [StreamReader_new_with_cursor(parser.byte_order, cursor, src, debug)
        EXCEPT !.aligned = aligned, !.warnings = warnings, !.tracks = tracks]

\* The three stages of the loop of PacketDecoder::decode: each returns
\* [next, end]: the reader after the stage when the loop goes on, or how the
\* call ends.
StageHeader(parser, r, taken) ==
    IF Len(r.src) < cursor_bytes(parser.pkt_header.wire_size_hint)
    THEN [next |-> None, end |-> Some(DecodeEnd(StateHeader, "None", NoPacket, r, taken))]
    ELSE [next |-> Some(Parser_parse_header(parser, r)), end |-> None]

StagePacketContext(parser, state, r, taken) ==
    IF Unwrap(state.header).stream_id + 1 \notin 1..Len(parser.streams)
    THEN [next |-> None,
          end |-> Some(DecodeFailed(
                     [r EXCEPT !.err = "UndefinedStreamId",
                               !.errval = Unwrap(state.header).stream_id], taken))]
    ELSE IF usize_sub(
                cursor_bytes(parser.streams[Unwrap(state.header).stream_id + 1]
                                 .packet_context.wire_size_hint),
                cursor_bytes(state.cursor)).overflow /\ r.debug
    THEN [next |-> None,
          end |-> Some(DecodeFailed([r EXCEPT !.panic = "context_bytes_remaining"],
                                    taken))]
    ELSE IF Len(r.src) <
            usize_sub(
                cursor_bytes(parser.streams[Unwrap(state.header).stream_id + 1]
                                 .packet_context.wire_size_hint),
                cursor_bytes(state.cursor)).v
    THEN [next |-> None, end |-> Some(DecodeEnd(state, "None", NoPacket, r, taken))]
    ELSE [next |-> Some(Parser_parse_packet_context(
                           parser.streams[Unwrap(state.header).stream_id + 1], r)),
          end |-> None]

StageEvents(parser, state, r, taken) ==
    IF usize_sub(PacketContext_packet_size(Unwrap(state.context)),
                 cursor_bytes(state.cursor)).overflow /\ r.debug
    THEN [next |-> None,
          end |-> Some(DecodeFailed([r EXCEPT !.panic = "packet_size - cursor_bytes"],
                                    taken))]
    ELSE IF Len(r.src) < usize_sub(PacketContext_packet_size(Unwrap(state.context)),
                                   cursor_bytes(state.cursor)).v
    THEN [next |-> None, end |-> Some(DecodeEnd(state, "None", NoPacket, r, taken))]
    ELSE IF Unwrap(state.header).stream_id + 1 \notin 1..Len(parser.streams)
    THEN [next |-> None,
          end |-> Some(DecodeFailed(
                     [r EXCEPT !.err = "UndefinedStreamId",
                               !.errval = Unwrap(state.header).stream_id], taken))]
    ELSE [next |-> Some(Parser_parse_events(
                           parser.streams[Unwrap(state.header).stream_id + 1],
                           Unwrap(state.context), r)),
          end |-> None]

\* One stage on the buffer, from the state the decoder holds.
Stage(parser, debug, state, src, taken, aligned, warnings, tracks) ==
    IF state.tag = "Header"
    THEN StageHeader(parser,
             StageReader(parser, src, debug, 0, aligned, warnings, tracks), taken)
    ELSE IF state.tag = "PacketContext"
    THEN StagePacketContext(parser, state,
             StageReader(parser, src, debug, state.cursor, aligned, warnings, tracks),
             taken)
    ELSE StageEvents(parser, state,
             StageReader(parser, src, debug, state.cursor, aligned, warnings, tracks),
             taken)

\* The loop of PacketDecoder::decode: a stage that read its part moves the
\* state on and the loop goes round; the Events stage returns the packet.
RECURSIVE decode_loop(_, _, _, _, _, _, _, _)
decode_step(parser, debug, state, taken, st) ==
    IF IsSome(st.end) THEN Unwrap(st.end)
    ELSE IF Failed(Unwrap(st.next)) THEN DecodeFailed(Unwrap(st.next), taken)
    ELSE IF state.tag = "Header"
    THEN decode_loop(parser, debug,
             StatePacketContext(Unwrap(st.next).val, Unwrap(st.next).cursor),
             SubSeq(Unwrap(st.next).src, Unwrap(st.next).pos + 1,
                    Len(Unwrap(st.next).src)),
             taken + Unwrap(st.next).pos, Unwrap(st.next).aligned,
             Unwrap(st.next).warnings, Unwrap(st.next).tracks)
    ELSE IF state.tag = "PacketContext"
    THEN decode_loop(parser, debug,
             StateEvents(Unwrap(state.header), Unwrap(st.next).val,
                         Unwrap(st.next).cursor),
             SubSeq(Unwrap(st.next).src, Unwrap(st.next).pos + 1,
                    Len(Unwrap(st.next).src)),
             taken + Unwrap(st.next).pos, Unwrap(st.next).aligned,
             Unwrap(st.next).warnings, Unwrap(st.next).tracks)
    ELSE DecodeEnd(StateHeader, "Ok",
                   [header |-> state.header, context |-> state.context,
                    events |-> Unwrap(st.next).val],
                   Unwrap(st.next), taken)

decode_loop(parser, debug, state, src, taken, aligned, warnings, tracks) ==
    decode_step(parser, debug, state, taken,
                Stage(parser, debug, state, src, taken, aligned, warnings, tracks))

\* PacketDecoder::decode
PacketDecoder_decode(parser, debug, state, src) ==
    decode_loop(parser, debug, state, src, 0, TRUE, <<>>, TRUE)

\* ------------------------------------------------- the tracer (byte streams)
\* The byte stream a barectf tracer writes for a configuration.  What it
\* writes is a sequence of items [align, bytes]: zero bytes up to the next
\* multiple of align bits, then the bytes.
Item(align, bytes) == [align |-> align, bytes |-> bytes]

RECURSIVE LsbBytes(_, _)
LsbBytes(v, n) ==
    IF n = 0 THEN <<>> ELSE <<v % 256>> \o LsbBytes(v \div 256, n - 1)

\* The bytes of a size-bit integer in the byte order; a negative value is
\* written in two's complement.
ToBytes(byte_order, v, size) ==
    LET n == size \div 8
        u == IF v >= 0 THEN v ELSE IF size = 8 THEN v + 256 ELSE v + 65536
    IN  IF byte_order = "little-endian" THEN LsbBytes(u, n)
        ELSE Reverse(LsbBytes(u, n))

I_int(byte_order, v, size, align) == <<Item(align, ToBytes(byte_order, v, size))>>

I_opt(byte_order, v, oft) ==
    IF IsSome(oft)
    THEN I_int(byte_order, v, Unwrap(oft).size, Unwrap(oft).alignment)
    ELSE <<>>

\* The value the tracer writes for a field of a class, from a small seed.
SampleInt(ft, seed) ==
    IF ft.class \in {"signed-integer", "signed-enumeration"} /\ ft.size <= 16
    THEN 0 - seed ELSE seed
SampleString(seed) == <<65, 65 + seed>>
SampleLength(seed) == seed % 3

I_primitive(byte_order, ft, seed) ==
    IF ft.class = "string"
    THEN <<Item(8, SampleString(seed) \o <<0>>)>>
    ELSE I_int(byte_order, SampleInt(ft, seed), ft.size, ft.alignment)

I_elements(byte_order, ft, seed, n) ==
    Concat([i \in 1..n |-> I_primitive(byte_order, ft, seed)])

I_field(byte_order, ft, seed) ==
    IF ft.class = "static-array"
    THEN <<Item(FieldType_alignment(ft), <<>>)>>
         \o I_elements(byte_order, Unwrap(ft.element_field_type), seed, ft.length)
    ELSE IF ft.class = "dynamic-array"
    THEN I_int(byte_order, SampleLength(seed), 32, 8)
         \o <<Item(FieldType_alignment(ft), <<>>)>>
         \o I_elements(byte_order, Unwrap(ft.element_field_type), seed,
                       SampleLength(seed))
    ELSE I_primitive(byte_order, ft, seed)

I_members(byte_order, members, seed) ==
    Concat([i \in 1..Len(members) |->
               I_field(byte_order, members[i].field_type, seed)])

I_struct(byte_order, ostruct, seed) ==
    IF ~IsSome(ostruct) THEN <<>>
    ELSE <<Item(StructureFieldType_alignment(Unwrap(ostruct)), <<>>)>>
         \o I_members(byte_order, Unwrap(ostruct), seed)

\* The bytes of a sequence of items, written from bit 0 of a packet: the
\* writer is [bytes, cursor].
Writer == [bytes |-> <<>>, cursor |-> 0]

W_item(w, item) ==
    LET pad == (item.align - (w.cursor % item.align)) % item.align
    IN  [bytes |-> w.bytes \o [i \in 1..(pad \div 8) |-> 0] \o item.bytes,
         cursor |-> w.cursor + pad + 8 * Len(item.bytes)]

RECURSIVE W_items(_, _, _)
W_items(w, items, i) ==
    IF i > Len(items) \/ w.cursor >= Huge THEN w
    ELSE W_items(W_item(w, items[i]), items, i + 1)

\* The values a reader of the stream is to report for what was written.
SamplePrimitive(ft, seed) ==
    CASE ft.class = "string" -> StringValue(SampleString(seed))
      [] ft.class = "real" -> IF ft.size = 32 THEN F32(seed) ELSE F64(seed)
      [] ft.class \in {"unsigned-integer", "unsigned-enumeration"} ->
             UnsignedInteger(seed, "Decimal")
      [] OTHER -> SignedInteger(SampleInt(ft, seed), "Decimal")

SampleField(ft, seed) ==
    IF ft.class = "static-array"
    THEN Array([i \in 1..ft.length |->
                   SamplePrimitive(Unwrap(ft.element_field_type), seed)])
    ELSE IF ft.class = "dynamic-array"
    THEN Array([i \in 1..SampleLength(seed) |->
                   SamplePrimitive(Unwrap(ft.element_field_type), seed)])
    ELSE IF ft.class \in {"unsigned-enumeration", "signed-enumeration"}
    THEN Primitive(Enumeration(SampleInt(ft, seed), ft.preferred_display_base,
                               EnumerationMappings_label(
                                   sorted_by_key(ft.mappings),
                                   SampleInt(ft, seed))))
    ELSE IF ft.class \in {"unsigned-integer", "signed-integer"}
    THEN Primitive([SamplePrimitive(ft, seed) EXCEPT
                       !.base = ft.preferred_display_base])
    ELSE Primitive(SamplePrimitive(ft, seed))

SampleStruct(ostruct, seed) ==
    IF ~IsSome(ostruct) THEN <<>>
    ELSE [i \in 1..Len(Unwrap(ostruct)) |->
             <<Unwrap(ostruct)[i].name,
               SampleField(Unwrap(ostruct)[i].field_type, seed)>>]

\* One packet of the stream, [stream, nevents, pad]: the data stream type id,
\* the number of event records and the number of padding bytes after the
\* content.  idx is the packet's position in the stream; it seeds the values.
EventSeed(idx, k) == (idx - 1) * (MaxEvents + 2) + k

\* What a tracer that does not conform writes differently in a packet: a
\* magic number or a UUID that is not the schema's, the id of a stream type the
\* schema does not have, in the last event record the id of an event record
\* type the stream type does not have, or a packet size that is less than the
\* content size ("content-size": by one byte; "total-size": a packet size of
\* one byte, less than the header and the context).
Fault(pk) == IF "fault" \in DOMAIN pk THEN pk.fault ELSE "none"

\* The packet size written in the context of a packet with the content size.
TracedTotal(pk, content) ==
    IF Fault(pk) = "content-size" THEN content - 8
    ELSE IF Fault(pk) = "total-size" THEN 8
    ELSE content + 8 * pk.pad

TracedMagic(pk) ==
    IF Fault(pk) = "magic" THEN <<193, 252, 31, 192>> ELSE MAGIC
TracedUuid(cfg, pk) ==
    IF Fault(pk) = "uuid" \/ ~IsSome(cfg.uuid) THEN [i \in 1..16 |-> 32 + i]
    ELSE Unwrap(cfg.uuid)
TracedStreamId(cfg, pk) ==
    IF Fault(pk) = "stream" THEN Len(cfg.data_stream_types) ELSE pk.stream

\* The event record type ids of a packet: they cycle through the stream's
\* event record types.
EventIds(st, pk, idx) ==
    [k \in 1..pk.nevents |->
        IF Fault(pk) = "event" /\ k = pk.nevents THEN Len(st.event_record_types)
        ELSE (idx + k) % Len(st.event_record_types)]

\* The event record type whose structures follow an event header with the id:
\* for an id the stream type does not have, those of the last.
TracedEventType(st, id) ==
    sorted_by_key(st.event_record_types)
        [IF id < Len(st.event_record_types) THEN id + 1
         ELSE Len(st.event_record_types)]

\* The header and the common context of an event record.
I_event_header(byte_order, st, id, seed) ==
    <<Item(DataStreamTypeEventRecordFeatures_alignment(st), <<>>)>>
    \o I_int(byte_order, id, st.type_id_field_type.size,
             st.type_id_field_type.alignment)
    \o I_int(byte_order, seed, st.timestamp_field_type.size,
             st.timestamp_field_type.alignment)
    \o I_struct(byte_order, st.event_record_common_context_field_type, seed)

I_event(byte_order, st, id, seed) ==
    LET ert == TracedEventType(st, id)[2]
    IN  I_event_header(byte_order, st, id, seed)
        \o I_struct(byte_order, ert.specific_context_field_type, seed)
        \o I_struct(byte_order, ert.payload_field_type, seed)

\* The header and the context of a packet, with the two sizes given.
I_preamble(cfg, st, pk, idx, total, content) ==
    LET bo == cfg.native_byte_order
    IN  <<Item(TraceTypeFeatures_alignment(cfg), <<>>)>>
        \o (IF IsSome(cfg.magic_field_type)
            THEN <<Item(Unwrap(cfg.magic_field_type).alignment,
                        MsbFirst(bo, TracedMagic(pk)))>>
            ELSE <<>>)
        \o (IF cfg.uuid_field_type THEN <<Item(8, TracedUuid(cfg, pk))>> ELSE <<>>)
        \o I_int(bo, TracedStreamId(cfg, pk), cfg.data_stream_type_id_field_type.size,
                 cfg.data_stream_type_id_field_type.alignment)
        \o <<Item(PacketContextAlignment(st), <<>>)>>
        \o I_int(bo, total, st.total_size_field_type.size,
                 st.total_size_field_type.alignment)
        \o I_int(bo, content, st.content_size_field_type.size,
                 st.content_size_field_type.alignment)
        \o I_opt(bo, EventSeed(idx, 0), st.beginning_timestamp_field_type)
        \o I_opt(bo, EventSeed(idx, pk.nevents), st.end_timestamp_field_type)
        \o I_opt(bo, 0, st.discarded_event_records_counter_snapshot_field_type)
        \o I_opt(bo, idx - 1, st.sequence_number_field_type)
        \o I_members(bo, st.packet_context_field_type_extra_members,
                     EventSeed(idx, 0))

\* The items of one packet up to the end of its content.
I_packet(cfg, pk, idx, total, content) ==
    LET st == sorted_by_key(cfg.data_stream_types)[pk.stream + 1][2]
        ids == EventIds(st, pk, idx)
    IN  I_preamble(cfg, st, pk, idx, total, content)
        \o Concat([k \in 1..pk.nevents |->
                      I_event(cfg.native_byte_order, st, ids[k], EventSeed(idx, k))])

\* The content size of a packet: the layout is fixed by the configuration, so
\* it is the cursor after the last event record whatever the sizes written.
ContentSize(cfg, pk, idx) ==
    W_items(Writer, I_packet(cfg, pk, idx, 0, 0), 1).cursor

\* The bytes of one packet: the content, then the padding (no packet is
\* written whose size would saturate).
PacketBytes(cfg, pk, idx) ==
    LET content == ContentSize(cfg, pk, idx)
        total == TracedTotal(pk, content)
    IN  IF total >= Huge THEN <<>>
        ELSE W_items(Writer, I_packet(cfg, pk, idx, total, content), 1).bytes
             \o [i \in 1..pk.pad |-> 0]

SomeIf(oft, v) == IF IsSome(oft) THEN Some(v) ELSE None

\* The Packet a reader of PacketBytes(cfg, pk, idx) is to report.
PacketValue(cfg, pk, idx) ==
    LET sorted == sorted_by_key(cfg.data_stream_types)
        st == sorted[pk.stream + 1][2]
        ids == EventIds(st, pk, idx)
        content_size_bits == ContentSize(cfg, pk, idx)
    IN  [header |-> Some(
            [magic_number |-> SomeIf(cfg.magic_field_type, TracedMagic(pk)),
             trace_uuid |->
                 IF cfg.uuid_field_type THEN Some(TracedUuid(cfg, pk)) ELSE None,
             stream_id |-> TracedStreamId(cfg, pk),
             stream_name |-> sorted[pk.stream + 1][1]]),
         context |-> Some(
            [packet_size_bits |-> TracedTotal(pk, content_size_bits),
             content_size_bits |-> content_size_bits,
             beginning_timestamp |->
                 SomeIf(st.beginning_timestamp_field_type, EventSeed(idx, 0)),
             end_timestamp |->
                 SomeIf(st.end_timestamp_field_type, EventSeed(idx, pk.nevents)),
             events_discarded |->
                 SomeIf(st.discarded_event_records_counter_snapshot_field_type, 0),
             sequence_number |-> SomeIf(st.sequence_number_field_type, idx - 1),
             extra_members |->
                 SampleStruct(Some(st.packet_context_field_type_extra_members),
                              EventSeed(idx, 0))]),
         events |->
            [k \in 1..pk.nevents |->
                [id |-> ids[k], name |-> TracedEventType(st, ids[k])[1],
                 timestamp |-> EventSeed(idx, k),
                 log_level |-> TracedEventType(st, ids[k])[2].log_level,
                 specific_context |->
                     SampleStruct(TracedEventType(st, ids[k])[2]
                                      .specific_context_field_type,
                                  EventSeed(idx, k)),
                 common_context |->
                     SampleStruct(st.event_record_common_context_field_type,
                                  EventSeed(idx, k)),
                 payload |->
                     SampleStruct(TracedEventType(st, ids[k])[2].payload_field_type,
                                  EventSeed(idx, k))]]]

\* The byte stream of a sequence of packets, and the packets in it.
StreamBytes(cfg, pkts) ==
    Concat([i \in 1..Len(pkts) |-> PacketBytes(cfg, pkts[i], i)])
StreamPackets(cfg, pkts) ==
    [i \in 1..Len(pkts) |-> PacketValue(cfg, pkts[i], i)]

\* ------------------------------------------------------------ configurations
\* Field types of config.rs.
PrimitiveFt(class, size, alignment) ==
    [class |-> class, size |-> size, alignment |-> alignment,
     preferred_display_base |-> "Decimal", mappings |-> <<>>,
     length |-> 0, element_field_type |-> None]
UIntFt(size, alignment) == PrimitiveFt("unsigned-integer", size, alignment)
IntFt(size, alignment) == PrimitiveFt("signed-integer", size, alignment)
RealFt(size, alignment) == PrimitiveFt("real", size, alignment)
StringFt == PrimitiveFt("string", 0, 0)
UEnumFt(size, alignment, mappings) ==
    [PrimitiveFt("unsigned-enumeration", size, alignment) EXCEPT
        !.mappings = mappings, !.preferred_display_base = "Hexadecimal"]
EnumFt(size, alignment, mappings) ==
    [PrimitiveFt("signed-enumeration", size, alignment) EXCEPT
        !.mappings = mappings]
StaticArrayFt(length, element) ==
    [PrimitiveFt("static-array", 0, 0) EXCEPT
        !.length = length, !.element_field_type = Some(element)]
DynamicArrayFt(element) ==
    [PrimitiveFt("dynamic-array", 0, 0) EXCEPT !.element_field_type = Some(element)]

Member(name, ft) == [name |-> name, field_type |-> ft]
EventRecordType(log_level, specific_context, payload) ==
    [log_level |-> log_level, specific_context_field_type |-> specific_context,
     payload_field_type |-> payload]

\* A data stream type with byte-packed features and two event record types.
BaseStream ==
    [total_size_field_type |-> UIntFt(16, 8),
     content_size_field_type |-> UIntFt(16, 8),
     beginning_timestamp_field_type |-> None,
     end_timestamp_field_type |-> None,
     discarded_event_records_counter_snapshot_field_type |-> None,
     sequence_number_field_type |-> None,
     packet_context_field_type_extra_members |-> <<>>,
     type_id_field_type |-> UIntFt(8, 8),
     timestamp_field_type |-> UIntFt(8, 8),
     event_record_common_context_field_type |-> None,
     event_record_types |->
        <<<<"init", EventRecordType(None, None, None)>>,
          <<"shutdown",
            EventRecordType(Some(3), None, Some(<<Member("code", UIntFt(8, 8))>>))>>>>]

BaseCfg ==
    [native_byte_order |-> "little-endian",
     uuid |-> Some([i \in 1..16 |-> 16 + i]),
     magic_field_type |-> None,
     uuid_field_type |-> FALSE,
     data_stream_type_id_field_type |-> UIntFt(8, 8),
     data_stream_types |-> <<<<"default", BaseStream>>>>]

WithStream(st) == [BaseCfg EXCEPT !.data_stream_types = <<<<"default", st>>>>]

\* Big-endian, a magic number, aligned features, integer extra members, a
\* common context, enumeration, real and dynamic array payloads.
AlignedStream ==
    [BaseStream EXCEPT
        !.total_size_field_type = UIntFt(16, 16),
        !.content_size_field_type = UIntFt(16, 16),
        !.beginning_timestamp_field_type = Some(UIntFt(32, 32)),
        !.sequence_number_field_type = Some(UIntFt(16, 16)),
        !.packet_context_field_type_extra_members = <<Member("cpu", UIntFt(8, 8))>>,
        !.timestamp_field_type = UIntFt(16, 16),
        !.event_record_common_context_field_type =
            Some(<<Member("depth", IntFt(8, 8))>>),
        !.event_record_types =
            <<<<"alpha",
                EventRecordType(None, None,
                    Some(<<Member("vals", DynamicArrayFt(UIntFt(16, 16)))>>))>>,
              <<"beta",
                EventRecordType(Some(1),
                    Some(<<Member("level",
                        UEnumFt(8, 8, <<<<"HIGH", <<InclusiveRange(4, 255)>>>>,
                                        <<"LOW", <<Value(1), Value(2)>>>>>>))>>),
                    Some(<<Member("ratio", RealFt(32, 32))>>))>>>>]
CfgAligned ==
    [WithStream(AlignedStream) EXCEPT
        !.native_byte_order = "big-endian",
        !.magic_field_type = Some(UIntFt(32, 32))]

\* A UUID in the header and two data stream types.
CfgUuid ==
    [BaseCfg EXCEPT
        !.uuid_field_type = TRUE,
        !.data_stream_types =
            <<<<"stream_a", BaseStream>>,
              <<"stream_b",
                [BaseStream EXCEPT
                    !.end_timestamp_field_type = Some(UIntFt(8, 8)),
                    !.discarded_event_records_counter_snapshot_field_type =
                        Some(UIntFt(8, 8)),
                    !.event_record_types =
                        <<<<"gamma",
                            EventRecordType(None,
                                Some(<<Member("msg", StringFt)>>),
                                Some(<<Member("pair",
                                    StaticArrayFt(2, IntFt(16, 16)))>>))>>>>]>>>>]

\* Packet context extra members that are a string, or arrays.
CfgCtxString ==
    WithStream([BaseStream EXCEPT
        !.packet_context_field_type_extra_members = <<Member("host", StringFt)>>])
CfgCtxArrays ==
    WithStream([BaseStream EXCEPT
        !.packet_context_field_type_extra_members =
            <<Member("regs", StaticArrayFt(2, UIntFt(8, 8))),
              Member("tail", DynamicArrayFt(UIntFt(8, 8)))>>])

\* A 16-bit real in a payload.
CfgReal16 ==
    WithStream([BaseStream EXCEPT
        !.event_record_types =
            <<<<"init", EventRecordType(None, None,
                            Some(<<Member("half", RealFt(16, 16))>>))>>>>])

\* A 24-bit event record type id, and a 128-bit alignment.
CfgBadSize == WithStream([BaseStream EXCEPT !.type_id_field_type = UIntFt(24, 8)])
CfgBadAlignment ==
    WithStream([BaseStream EXCEPT !.timestamp_field_type = UIntFt(8, 128)])

Configs == {BaseCfg, CfgAligned, CfgUuid, CfgCtxString, CfgCtxArrays, CfgReal16,
            CfgBadSize, CfgBadAlignment}

\* Every packet header of the supported sizes and alignments: an optional
\* 32-bit magic number, an optional UUID, a stream type id.
Sizes == {8, 16, 32, 64}
HeaderConfigs ==
    {[BaseCfg EXCEPT !.magic_field_type = m, !.uuid_field_type = u,
                     !.data_stream_type_id_field_type = UIntFt(ssz, sal)] :
        m \in {None} \cup {Some(UIntFt(32, al)) : al \in Sizes},
        u \in BOOLEAN, ssz \in Sizes, sal \in Sizes}

\* The packets a stream of the configuration can hold, and the streams of at
\* most MaxPackets packets.
PacketChoices(cfg) ==
    [stream : 0..(Len(cfg.data_stream_types) - 1),
     nevents : 0..MaxEvents, pad : 0..MaxPad]
PacketSeqs(cfg) ==
    UNION {[1..n -> PacketChoices(cfg)] : n \in 1..MaxPackets}

\* ------------------------------------------------------------ state machine
\* A program builds a Parser from a configuration, reads packets from a byte
\* stream with Parser::parse until a read fails, then turns the parser into a
\* PacketDecoder (into_packet_decoder takes the parser by value) and decodes
\* the same bytes as they arrive in chunks, the way FramedRead drives a
\* Decoder: decode is called until it returns Ok(None), then more is read.
VARIABLES
    config,           \* the Config
    debug_assertions, \* the build: debug assertions and overflow checks on
    built,            \* the result of Parser::new(&config)
    wire,             \* the bytes of the stream
    sent,             \* the packets the tracer wrote into wire
    rpos,             \* the position of the blocking reader in wire
    presults,         \* the outcome of each Parser::parse call
    fed,              \* the number of bytes of wire handed to the decoder
    buf,              \* the decoder's BytesMut
    readable,         \* decode is to be called before more is read
    decoder_state,    \* PacketDecoder.state ("NoDecoder" before it exists)
    dout,             \* the result of each decode call that was not Ok(None)
    aligned,          \* every read so far began on its alignment
    tracked,          \* every read so far left the cursor at the packet offset
    warnings,         \* the warnings logged by the parse calls and by the decoder
    instant,          \* a TrackingInstant the program keeps, and its last call
    hint              \* an AlignedCursor the program keeps, and its last call

vars == <<config, debug_assertions, built, wire, sent, rpos, presults,
          fed, buf, readable, decoder_state, dout, aligned, tracked, warnings,
          instant, hint>>

NoDecoder == [tag |-> "NoDecoder", header |-> None, context |-> None, cursor |-> 0]

\* What the caller sees of a call: Ok(packet), Err(error) or a panic.
Returned(out) ==
    [tag |-> out.tag, pkt |-> out.pkt, err |-> out.err, errval |-> out.errval,
     panic |-> out.panic]

\* The program before it makes a TrackingInstant.
NoInstant ==
    [lower |-> [bits |-> 0, v |-> <<>>], upper |-> <<>>, call |-> "none",
     arg |-> <<>>, ret |-> <<>>, panic |-> NoPanic, calls |-> 0]

InitProgram(c, pkts, d) ==
    /\ config = c
    /\ debug_assertions = d
    /\ built = Parser_new(c)
    /\ wire = IF Parser_new(c).ok THEN StreamBytes(c, pkts) ELSE <<>>
    /\ sent = IF Parser_new(c).ok THEN StreamPackets(c, pkts) ELSE <<>>
    /\ rpos = 0
    /\ presults = <<>>
    /\ fed = 0
    /\ buf = <<>>
    /\ readable = FALSE
    /\ decoder_state = NoDecoder
    /\ dout = <<>>
    /\ aligned = TRUE
    /\ tracked = TRUE
    /\ warnings = [parse |-> <<>>, decode |-> <<>>]

\* The program before it makes an AlignedCursor of its own.
NoCursor == [bit_index |-> 0, call |-> "none", arg |-> <<>>, ret |-> 0]

InitWith(c, pkts, d) ==
    InitProgram(c, pkts, d) /\ instant = NoInstant /\ hint = NoCursor

Init ==
    \E c \in Configs : \E pkts \in PacketSeqs(c) : \E d \in BOOLEAN :
        InitWith(c, pkts, d)

\* The blocking reads have ended: a call failed (at the end of the stream the
\* call fails with an Io error) or panicked.
ParseEnded == Len(presults) > 0 /\ presults[Len(presults)].tag # "Ok"

\* One Parser::parse call on the reader
ParseReturns(o) ==
    /\ rpos' = rpos + o.consumed
    /\ presults' = Append(presults, Returned(o))
    /\ aligned' = (aligned /\ o.aligned)
    /\ tracked' = (tracked /\ o.tracks)
    /\ warnings' = [warnings EXCEPT !.parse = @ \o o.warnings]

Parse ==
    /\ built.ok
    /\ decoder_state.tag = "NoDecoder"
    /\ ~ParseEnded
    /\ ParseReturns(Parser_parse(Unwrap(built.parser),
                                 SubSeq(wire, rpos + 1, Len(wire)), debug_assertions))
    /\ UNCHANGED <<instant, hint, config, debug_assertions, built, wire, sent,
                   fed, buf, readable, decoder_state, dout>>

\* Parser::into_packet_decoder
IntoPacketDecoder ==
    /\ built.ok
    /\ decoder_state.tag = "NoDecoder"
    /\ ParseEnded
    /\ decoder_state' = StateHeader
    /\ readable' = TRUE
    /\ UNCHANGED <<instant, hint, config, debug_assertions, built, wire, sent, rpos,
                   presults, fed, buf, dout, aligned, tracked, warnings>>

\* A decode call panicked: the program is gone.
DecodePanicked == Len(dout) > 0 /\ dout[Len(dout)].tag = "Panic"

\* The next n bytes of the stream arrive in the decoder's buffer.
Feed(n) ==
    /\ decoder_state.tag # "NoDecoder"
    /\ ~DecodePanicked
    /\ ~readable
    /\ n >= 1
    /\ fed + n <= Len(wire)
    /\ buf' = buf \o SubSeq(wire, fed + 1, fed + n)
    /\ fed' = fed + n
    /\ readable' = TRUE
    /\ UNCHANGED <<instant, hint, config, debug_assertions, built, wire, sent, rpos,
                   presults, decoder_state, dout, aligned, tracked, warnings>>

\* One PacketDecoder::decode call on the buffer
DecodeReturns(d) ==
    /\ decoder_state' = d.state
    /\ buf' = d.src
    /\ readable' = (d.out.tag # "None")
    /\ dout' = IF d.out.tag = "None" THEN dout ELSE Append(dout, Returned(d.out))
    /\ aligned' = (aligned /\ d.out.aligned)
    /\ tracked' = (tracked /\ d.out.tracks)
    /\ warnings' = [warnings EXCEPT !.decode = @ \o d.out.warnings]

Decode ==
    /\ decoder_state.tag # "NoDecoder"
    /\ ~DecodePanicked
    /\ readable
    /\ DecodeReturns(PacketDecoder_decode(Unwrap(built.parser), debug_assertions,
                                          decoder_state, buf))
    /\ UNCHANGED <<instant, hint, config, debug_assertions, built, wire, sent, rpos,
                   presults, fed>>

Next ==
    \/ Parse
    \/ IntoPacketDecoder
    \/ \E n \in (1..MaxChunk) \cup {Len(wire) - fed} : Feed(n)
    \/ Decode

Spec == Init /\ [][Next]_vars

\* The same program over every packet header layout, on streams of one packet.
InitHeader ==
    \E c \in HeaderConfigs : \E d \in BOOLEAN :
        \E pad \in 0..MaxPad :
            InitWith(c, <<[stream |-> 0, nevents |-> 1, pad |-> pad]>>, d)

SpecHeader == InitHeader /\ [][Next]_vars

\* ------------------------------------------------------------------ claims
\* What the properties below read of the state.
Results == {presults[i] : i \in 1..Len(presults)} \cup {dout[i] : i \in 1..Len(dout)}

AllOk(outs) == \A i \in 1..Len(outs) : outs[i].tag = "Ok"

OkCount(outs) == Cardinality({i \in 1..Len(outs) : outs[i].tag = "Ok"})

\* The bytes of the first n packets of a sequence, by their packet_size_bits.
RECURSIVE SumSizes(_, _)
SumSizes(pkts, n) ==
    IF n = 0 THEN 0
    ELSE SumSizes(pkts, n - 1) + PacketContext_packet_size(Unwrap(pkts[n].context))

Packets(outs) == [i \in 1..Len(outs) |-> outs[i].pkt]

\* The decoder has been given the whole stream and has returned Ok(None).
Drained == decoder_state.tag # "NoDecoder" /\ fed = Len(wire) /\ ~readable

\* A decode call is about to be made (the only step taken from such a state).
DecodeCall == decoder_state.tag # "NoDecoder" /\ readable /\ ~DecodePanicked

\* The plan of the stream type the decoder is reading a packet of.
CurrentStream ==
    Unwrap(built.parser).streams[Unwrap(decoder_state.header).stream_id + 1]

\* C1 (incremental equivalence): however the stream reaches the decoder in
\* chunks, every decode call that returns something returns Ok with the
\* packet the blocking Parser::parse call of the same rank returned, no decode
\* call returns an error, and once the whole stream is decoded the decoder has
\* returned as many packets as the blocking reads.
IncrementalEquivalence ==
    /\ \A i \in 1..Len(dout) :
          /\ dout[i].tag = "Ok"
          /\ i <= Len(presults)
          /\ presults[i].tag = "Ok"
          /\ dout[i].pkt = presults[i].pkt
    /\ Drained => Len(dout) = OkCount(presults)

\* C2 (round-trip ordering): the i-th packet returned by Parser::parse, and
\* the i-th packet returned by the decoder while no call has failed, is the
\* i-th packet written to the stream, its events list holding exactly the
\* event records written, in the order written.
RoundTripOrdering ==
    /\ \A i \in 1..Len(presults) :
          presults[i].tag = "Ok" => (i <= Len(sent) /\ presults[i].pkt = sent[i])
    /\ \A i \in 1..Len(dout) :
          AllOk(SubSeq(dout, 1, i)) => (i <= Len(sent) /\ dout[i].pkt = sent[i])

\* Two packets of two event records each went through both readers.
RoundTripWitness ==
    /\ Len(presults) >= 2 /\ presults[2].tag = "Ok"
    /\ Len(dout) = 2 /\ AllOk(dout)
    /\ Len(dout[1].pkt.events) = 2 /\ Len(dout[2].pkt.events) = 2
    /\ dout[1].pkt.events[1] # dout[1].pkt.events[2]

\* C3 (cursor continuity): after each Ok of Parser::parse the source has been
\* read up to the sum of packet_size_bits / 8 of the packets returned; after
\* each packet the decoder returns, the bytes it has removed from the buffer
\* are that sum too, so the next header is the next unread byte.
CursorContinuity ==
    /\ AllOk(presults) => rpos = SumSizes(Packets(presults), Len(presults))
    /\ (decoder_state.tag = "Header" /\ AllOk(dout))
          => fed - Len(buf) = SumSizes(Packets(dout), Len(dout))

\* Both readers are past two packets, the first with trailing padding.
CursorContinuityWitness ==
    /\ Len(presults) >= 2 /\ presults[2].tag = "Ok"
    /\ Len(dout) = 2 /\ AllOk(dout) /\ decoder_state.tag = "Header"
    /\ Unwrap(dout[1].pkt.context).packet_size_bits
          > Unwrap(dout[1].pkt.context).content_size_bits
    /\ fed - Len(buf) = Len(wire)

\* C4 (context wire-size hint): the assertion that the cursor after the packet
\* context is the stream's packet_context.wire_size_hint never fails, and the
\* cursor the decoder carries into the Events stage is that hint.
ContextHintAccurate ==
    /\ \A o \in Results : o.panic # "packet context wire_size_hint"
    /\ decoder_state.tag = "Events"
          => decoder_state.cursor = CurrentStream.packet_context.wire_size_hint

\* C5 (header wire-size hint): the assertion that the cursor after the header
\* fields is pkt_header.wire_size_hint never fails, and the cursor the decoder
\* carries into the PacketContext stage is that hint.
HeaderHintAccurate ==
    /\ \A o \in Results : o.panic # "header wire_size_hint"
    /\ decoder_state.tag = "PacketContext"
          => decoder_state.cursor = Unwrap(built.parser).pkt_header.wire_size_hint

\* The decoder is between a header with a magic number and a UUID and its
\* packet context, and the blocking read of the same packet returned it.
HeaderHintWitness ==
    /\ decoder_state.tag = "PacketContext"
    /\ IsSome(config.magic_field_type) /\ config.uuid_field_type
    /\ config.data_stream_type_id_field_type.alignment = 64
    /\ decoder_state.cursor = 256
    /\ Len(presults) >= 1 /\ presults[1].tag = "Ok"

\* The end, in the stream, of the packet the decoder is to return next while
\* every call so far returned a packet.
NextPacketEnd == SumSizes(sent, Len(dout) + 1)

\* C6 (need more data commits no partial progress): a decode call made while
\* the buffer does not reach the end of the packet being decoded returns
\* Ok(None), neither an error nor a packet, and when it ends in the stage it
\* began in it has taken no byte and left the header, context and cursor it
\* carried as they were.
NeedMoreDataKeepsStage ==
    [][(/\ DecodeCall
        /\ AllOk(dout)
        /\ Len(dout) < Len(sent)
        /\ fed < NextPacketEnd)
       => /\ dout' = dout
          /\ decoder_state'.tag = decoder_state.tag
                => (buf' = buf /\ decoder_state' = decoder_state)]_vars

\* C7 (zero or more events): a packet written with no event record, whose
\* content_size_bits is the cursor at the end of its packet context, is
\* returned Ok with an empty events list by Parser::parse and by the decoder.
ZeroEventPackets ==
    /\ \A i \in 1..Len(presults) :
          (i <= Len(sent) /\ sent[i].events = <<>>)
             => (presults[i].tag = "Ok" /\ presults[i].pkt.events = <<>>)
    /\ \A i \in 1..Len(dout) :
          (i <= Len(sent) /\ sent[i].events = <<>> /\ AllOk(SubSeq(dout, 1, i - 1)))
             => (dout[i].tag = "Ok" /\ dout[i].pkt.events = <<>>)

\* C8 (alignment at member boundaries): every field read through the
\* StreamReader and every structure began at a cursor that is a multiple of
\* its alignment.
AlignedAtBoundaries == aligned

\* Both readers went through a packet of the configuration whose features,
\* common context and payloads have 16 and 32 bit alignments after 8 bit
\* members, with two event records.
AlignedWitness ==
    /\ config.native_byte_order = "big-endian"
    /\ Len(presults) >= 1 /\ presults[1].tag = "Ok"
    /\ Len(dout) >= 1 /\ dout[1].tag = "Ok"
    /\ Len(dout[1].pkt.events) = 2
    /\ aligned

\* C9 (one packet per call): a decode call returns at most one packet; made
\* with the next packet of the stream complete in the buffer it returns that
\* packet and leaves in the buffer every byte that follows it.
OnePacketPerCall ==
    [][/\ Len(dout') <= Len(dout) + 1
       /\ (/\ DecodeCall
           /\ AllOk(dout)
           /\ Len(dout) < Len(sent)
           /\ fed >= NextPacketEnd)
          => /\ Len(dout') = Len(dout) + 1
             /\ dout'[Len(dout')].tag = "Ok"
             /\ dout'[Len(dout')].pkt = sent[Len(dout')]
             /\ Len(buf') = fed - NextPacketEnd]_vars

\* The sizes of the Real field types a configuration declares.
FieldReals(ft) ==
    IF ft.class = "real" THEN {ft.size}
    ELSE IF IsSome(ft.element_field_type)
            /\ Unwrap(ft.element_field_type).class = "real"
    THEN {Unwrap(ft.element_field_type).size}
    ELSE {}
StructReals(ostruct) ==
    IF IsSome(ostruct)
    THEN UNION {FieldReals(Unwrap(ostruct)[i].field_type) :
                   i \in 1..Len(Unwrap(ostruct))}
    ELSE {}
StreamReals(st) ==
    StructReals(Some(st.packet_context_field_type_extra_members))
    \cup StructReals(st.event_record_common_context_field_type)
    \cup UNION {StructReals(st.event_record_types[i][2].specific_context_field_type)
                \cup StructReals(st.event_record_types[i][2].payload_field_type) :
                   i \in 1..Len(st.event_record_types)}
RealSizes(cfg) ==
    UNION {StreamReals(cfg.data_stream_types[i][2]) :
              i \in 1..Len(cfg.data_stream_types)}

\* C10 as stated (construction-only schema errors): once Parser::new has
\* returned Ok, no Parser::parse or decode call fails because of a field's
\* declared size or alignment, Real fields included.
NoSizeErrorAfterNew ==
    \A o \in Results :
        o.err \notin {"UnsupportedFieldType", "UnsupportedAlignment",
                      "InvalidFloatSize"}

\* C10 (amended): a configuration Parser::new rejects is rejected with
\* UnsupportedFieldType or UnsupportedAlignment and nothing is read with it;
\* after Ok no call fails with either, and a call fails with InvalidFloatSize
\* only when the configuration declares a Real field that is not of 32 or 64
\* bits, which Parser::new accepts.
SizeErrorsAfterNew ==
    /\ ~built.ok => /\ built.err.kind \in {"UnsupportedFieldType",
                                           "UnsupportedAlignment"}
                    /\ presults = <<>> /\ dout = <<>>
    /\ \A o \in Results :
          /\ o.err \notin {"UnsupportedFieldType", "UnsupportedAlignment"}
          /\ o.err = "InvalidFloatSize"
                => (RealSizes(config) \ {32, 64} # {}
                    /\ o.errval \in RealSizes(config) \ {32, 64})

\* A plan with a 16-bit Real was built, and both readers failed on it with
\* InvalidFloatSize.
SizeErrorsWitness ==
    /\ built.ok
    /\ 16 \in RealSizes(config)
    /\ Len(presults) >= 1 /\ presults[1].err = "InvalidFloatSize"
    /\ Len(dout) >= 1 /\ dout[1].err = "InvalidFloatSize"

\* ------------------------------------------------------- plan acceptance
\* A configuration with every feature, every structure and an array, built
\* from the field type at each position of the schema.
PlanPositions ==
    {"magic", "stream-id", "total-size", "content-size", "beginning-timestamp",
     "end-timestamp", "discarded", "sequence-number", "extra-member", "type-id",
     "timestamp", "common-context", "specific-context", "payload", "element"}

PlanFieldTypes == [p \in PlanPositions |->
                      IF p = "magic" THEN UIntFt(32, 8)
                      ELSE IF p \in {"total-size", "content-size"}
                      THEN UIntFt(16, 8)
                      ELSE UIntFt(8, 8)]

PlanCfg(f) ==
    [BaseCfg EXCEPT
        !.magic_field_type = Some(f["magic"]),
        !.uuid_field_type = TRUE,
        !.data_stream_type_id_field_type = f["stream-id"],
        !.data_stream_types =
            <<<<"default",
                [total_size_field_type |-> f["total-size"],
                 content_size_field_type |-> f["content-size"],
                 beginning_timestamp_field_type |-> Some(f["beginning-timestamp"]),
                 end_timestamp_field_type |-> Some(f["end-timestamp"]),
                 discarded_event_records_counter_snapshot_field_type |->
                     Some(f["discarded"]),
                 sequence_number_field_type |-> Some(f["sequence-number"]),
                 packet_context_field_type_extra_members |->
                     <<Member("cpu", f["extra-member"])>>,
                 type_id_field_type |-> f["type-id"],
                 timestamp_field_type |-> f["timestamp"],
                 event_record_common_context_field_type |->
                     Some(<<Member("depth", f["common-context"])>>),
                 event_record_types |->
                     <<<<"init",
                         EventRecordType(None,
                             Some(<<Member("level", f["specific-context"])>>),
                             Some(<<Member("code", f["payload"]),
                                    Member("pair",
                                           StaticArrayFt(2, f["element"]))>>))>>>>]>>>>]

\* The sizes and alignments a schema may declare at a position: the supported
\* ones, a bit-packed one, one that is no power of two and one too large.
PlanSizes == {1, 8, 16, 24, 32, 64, 128}

PlanConfigs ==
    {PlanCfg([PlanFieldTypes EXCEPT ![p] = UIntFt(sz, al)]) :
        p \in PlanPositions, sz \in PlanSizes, al \in PlanSizes}

\* The program over every such configuration, on streams of one packet of one
\* event record.
InitPlan ==
    \E c \in PlanConfigs : \E d \in BOOLEAN : \E pad \in 0..MaxPad :
        InitWith(c, <<[stream |-> 0, nevents |-> 1, pad |-> pad]>>, d)

SpecPlan == InitPlan /\ [][Next]_vars

\* The field types a schema references, each as <<size, alignment>>: the
\* features, and the members of every structure (for an array, its element).
OptFieldType(oft) ==
    IF IsSome(oft) THEN {<<Unwrap(oft).size, Unwrap(oft).alignment>>} ELSE {}
StructFieldTypes(ostruct) ==
    IF IsSome(ostruct)
    THEN {<<FieldType_size(Unwrap(ostruct)[i].field_type),
            FieldType_alignment(Unwrap(ostruct)[i].field_type)>> :
             i \in 1..Len(Unwrap(ostruct))}
    ELSE {}
StreamFieldTypes(st) ==
    OptFieldType(Some(st.total_size_field_type))
    \cup OptFieldType(Some(st.content_size_field_type))
    \cup OptFieldType(st.beginning_timestamp_field_type)
    \cup OptFieldType(st.end_timestamp_field_type)
    \cup OptFieldType(st.discarded_event_records_counter_snapshot_field_type)
    \cup OptFieldType(st.sequence_number_field_type)
    \cup OptFieldType(Some(st.type_id_field_type))
    \cup OptFieldType(Some(st.timestamp_field_type))
    \cup StructFieldTypes(Some(st.packet_context_field_type_extra_members))
    \cup StructFieldTypes(st.event_record_common_context_field_type)
    \cup UNION {StructFieldTypes(st.event_record_types[i][2].specific_context_field_type)
                \cup StructFieldTypes(st.event_record_types[i][2].payload_field_type) :
                   i \in 1..Len(st.event_record_types)}
SchemaFieldTypes(cfg) ==
    OptFieldType(cfg.magic_field_type)
    \cup OptFieldType(Some(cfg.data_stream_type_id_field_type))
    \cup UNION {StreamFieldTypes(cfg.data_stream_types[i][2]) :
                   i \in 1..Len(cfg.data_stream_types)}

\* The alignments of the structures of a schema.
OptStructAlignment(ostruct) ==
    IF IsSome(ostruct) THEN {StructureFieldType_alignment(Unwrap(ostruct))} ELSE {}
StreamStructAlignments(st) ==
    {PacketContextAlignment(st), DataStreamTypeEventRecordFeatures_alignment(st)}
    \cup OptStructAlignment(st.event_record_common_context_field_type)
    \cup UNION {OptStructAlignment(st.event_record_types[i][2].specific_context_field_type)
                \cup OptStructAlignment(st.event_record_types[i][2].payload_field_type) :
                   i \in 1..Len(st.event_record_types)}
StructAlignments(cfg) ==
    {TraceTypeFeatures_alignment(cfg)}
    \cup UNION {StreamStructAlignments(cfg.data_stream_types[i][2]) :
                   i \in 1..Len(cfg.data_stream_types)}

\* What the schema must satisfy for a plan to be built.
MagicIs32(cfg) ==
    ~IsSome(cfg.magic_field_type) \/ Unwrap(cfg.magic_field_type).size = 32
Acceptable(cfg) ==
    /\ MagicIs32(cfg)
    /\ \A ft \in SchemaFieldTypes(cfg) : ft[1] \in Sizes /\ ft[2] \in Sizes
    /\ StructAlignments(cfg) \subseteq Sizes

\* C11 (plan acceptance): Parser::new returns Ok exactly when the magic field
\* is of 32 bits, every field type of the schema has its size and alignment
\* among 8, 16, 32, 64 and every structure alignment is among them; otherwise
\* there is no Parser, nothing is read, and the error is UnsupportedFieldType
\* with a path and the size and alignment of an offending field type of the
\* schema, or UnsupportedAlignment with a path.
PlanAcceptance ==
    /\ built.ok <=> Acceptable(config)
    /\ built.ok => IsSome(built.parser)
    /\ ~built.ok =>
          /\ built.parser = None /\ presults = <<>> /\ dout = <<>>
          /\ built.err.path # <<>>
          /\ \/ /\ built.err.kind = "UnsupportedFieldType"
                /\ <<built.err.size, built.err.alignment>> \in SchemaFieldTypes(config)
                /\ \/ built.err.size \notin Sizes
                   \/ built.err.alignment \notin Sizes
                   \/ (~MagicIs32(config)
                       /\ built.err.path = <<"magic-field-type">>
                       /\ built.err.size = Unwrap(config.magic_field_type).size)
             \/ built.err.kind = "UnsupportedAlignment"

\* A 64-bit magic field, of a supported size and alignment, was rejected.
PlanRejectedWitness ==
    /\ ~built.ok
    /\ built.err.kind = "UnsupportedFieldType"
    /\ built.err.path = <<"magic-field-type">>
    /\ built.err.size = 64 /\ built.err.alignment \in Sizes

\* ------------------------------------------ streams that do not conform
\* Configurations with a magic number, a UUID and two stream types, one with
\* a common context, with and without a trace type UUID in the schema; and a
\* configuration without a magic number and a UUID.
CfgFault ==
    [CfgUuid EXCEPT
        !.magic_field_type = Some(UIntFt(32, 32)),
        !.data_stream_types[1][2].event_record_common_context_field_type =
            Some(<<Member("depth", UIntFt(8, 8))>>)]
CfgNoTraceUuid == [CfgFault EXCEPT !.uuid = None]
FaultConfigs == {CfgFault, CfgNoTraceUuid, BaseCfg}

\* Packets of at least one event record and with padding, each written as the
\* schema says or with one of the faults.
Faults == {"none", "magic", "uuid", "stream", "event"}
FaultChoices(cfg) ==
    [stream : 0..(Len(cfg.data_stream_types) - 1),
     nevents : 1..MaxEvents, pad : {MaxPad}, fault : Faults]
FaultSeqs(cfg) ==
    UNION {[1..n -> FaultChoices(cfg)] : n \in 1..MaxPackets}

InitFault ==
    \E c \in FaultConfigs : \E pkts \in FaultSeqs(c) : \E d \in BOOLEAN :
        InitWith(c, pkts, d)

SpecFault == InitFault /\ [][Next]_vars

\* The ids of the stream types of the plan, and whether packet i of the stream
\* was written with another.
StreamIds == 0..(Len(Unwrap(built.parser).streams) - 1)
UndefinedStream(i) == Unwrap(sent[i].header).stream_id \notin StreamIds

\* What a call that finds an undefined stream id returns.
UndefinedStreamIdError(id) ==
    [tag |-> "Err", pkt |-> NoPacket, err |-> "UndefinedStreamId", errval |-> id,
     panic |-> NoPanic]

\* The bytes of a packet header.
HeaderBytes == cursor_bytes(Unwrap(built.parser).pkt_header.wire_size_hint)

\* C12 (undefined stream id): when the header of a packet carries a stream id
\* the plan does not have, the Parser::parse call that reads it returns
\* Err(UndefinedStreamId(id)) with the id read, and so does the decode call
\* that reads it; no Packet is returned for it, and the call has taken the
\* bytes of the header and none of the packet context or of the event
\* records.  No call returns the error for a packet with a stream id of the
\* plan.
UndefinedStreamIdRejected ==
    [][/\ \A i \in 1..Len(presults') :
            i <= Len(sent) =>
               /\ UndefinedStream(i) =>
                     /\ presults'[i] =
                            UndefinedStreamIdError(Unwrap(sent[i].header).stream_id)
                     /\ rpos' = SumSizes(sent, i - 1) + HeaderBytes
               /\ presults'[i].err = "UndefinedStreamId" => UndefinedStream(i)
       /\ (AllOk(dout) /\ Len(dout) < Len(sent) /\ Len(dout') > Len(dout)) =>
             /\ UndefinedStream(Len(dout') ) =>
                   /\ dout'[Len(dout')] =
                          UndefinedStreamIdError(
                              Unwrap(sent[Len(dout')].header).stream_id)
                   /\ dout'[Len(dout')] = presults[Len(dout')]
                   /\ fed - Len(buf') = SumSizes(sent, Len(dout)) + HeaderBytes
                   /\ decoder_state' = StateHeader
             /\ dout'[Len(dout')].err = "UndefinedStreamId" =>
                   UndefinedStream(Len(dout'))
      ]_vars

\* Both readers have returned the error for the second packet of a stream.
UndefinedStreamIdWitness ==
    /\ Len(presults) = 2 /\ presults[2].err = "UndefinedStreamId"
    /\ Len(dout) >= 2 /\ dout[1].tag = "Ok" /\ dout[2].err = "UndefinedStreamId"
    /\ dout[2].errval = Len(config.data_stream_types)

\* The ids of the event record types of the stream type of packet i, and
\* whether the last event record of the packet was written with another.
EventIdsOf(i) ==
    0..(Len(Unwrap(built.parser).streams[Unwrap(sent[i].header).stream_id + 1].events) - 1)
UndefinedEvent(i) ==
    /\ ~UndefinedStream(i)
    /\ sent[i].events[Len(sent[i].events)].id \notin EventIdsOf(i)

\* What a call that finds an undefined event id returns.
UndefinedEventIdError(id) ==
    [tag |-> "Err", pkt |-> NoPacket, err |-> "UndefinedEventId", errval |-> id,
     panic |-> NoPanic]

\* The bytes of packet i up to the end of the common context of its last event
\* record, as the tracer wrote them.
LastCommonContextEnd(i) ==
    LET stream_id == Unwrap(sent[i].header).stream_id
        st == sorted_by_key(config.data_stream_types)[stream_id + 1][2]
        n == Len(sent[i].events)
        pk == [stream |-> stream_id, nevents |-> n, pad |-> 0]
    IN  cursor_bytes(
            W_items(Writer,
                    I_preamble(config, st, pk, i, 0, 0)
                    \o Concat([k \in 1..(n - 1) |->
                                  I_event(config.native_byte_order, st,
                                          sent[i].events[k].id, EventSeed(i, k))])
                    \o I_event_header(config.native_byte_order, st,
                                      sent[i].events[n].id, EventSeed(i, n)),
                    1).cursor)

\* C13 (undefined event id): when an event header of a packet carries an event
\* id the plan of the stream type does not have, the Parser::parse call and the
\* decode call that read the packet return Err(UndefinedEventId(id)) with the
\* id read; no Packet is returned, so the event records read before it in the
\* packet are not returned; the call has read the event header and the common
\* context of the record and no byte after them.  No call returns the error
\* for a packet whose event ids are all of the plan.
UndefinedEventIdRejected ==
    [][/\ \A i \in 1..Len(presults') :
            i <= Len(sent) =>
               /\ UndefinedEvent(i) =>
                     /\ presults'[i] =
                            UndefinedEventIdError(
                                sent[i].events[Len(sent[i].events)].id)
                     /\ rpos' = SumSizes(sent, i - 1) + LastCommonContextEnd(i)
               /\ presults'[i].err = "UndefinedEventId" => UndefinedEvent(i)
       /\ (AllOk(dout) /\ Len(dout) < Len(sent) /\ Len(dout') > Len(dout)) =>
             /\ UndefinedEvent(Len(dout')) =>
                   /\ dout'[Len(dout')] = presults[Len(dout')]
                   /\ dout'[Len(dout')].err = "UndefinedEventId"
                   /\ fed - Len(buf') =
                          SumSizes(sent, Len(dout)) + LastCommonContextEnd(Len(dout'))
                   /\ decoder_state' = StateHeader
             /\ dout'[Len(dout')].err = "UndefinedEventId" =>
                   UndefinedEvent(Len(dout'))
      ]_vars

\* Both readers have returned the error for a packet of two event records, the
\* first of the plan, whose last event record has bytes after its common
\* context.
UndefinedEventIdWitness ==
    /\ Len(presults) = 1 /\ presults[1].err = "UndefinedEventId"
    /\ Len(sent[1].events) = 2
    /\ Len(dout) >= 1 /\ dout[1].err = "UndefinedEventId"
    /\ LastCommonContextEnd(1) < Unwrap(sent[1].context).content_size_bits \div 8

\* What Parser::parse returns at the end of the stream.
EndOfStreamError ==
    [tag |-> "Err", pkt |-> NoPacket, err |-> "Io", errval |-> 0, panic |-> NoPanic]

\* C14 (end of stream): the blocking reads of a stream of n conforming packets
\* return n times Ok, then, called with no byte left, Err(Io) of kind
\* UnexpectedEof and no packet; the decoder, given the same stream, returns the
\* same n packets and then Ok(None) on an empty buffer.
EndOfStream ==
    /\ ParseEnded =>
          /\ Len(presults) = Len(sent) + 1
          /\ \A i \in 1..Len(sent) : presults[i].tag = "Ok"
          /\ presults[Len(presults)] = EndOfStreamError
          /\ rpos = Len(wire)
    /\ Drained =>
          /\ Len(dout) = Len(sent)
          /\ \A i \in 1..Len(dout) : dout[i] = presults[i]
          /\ buf = <<>>
          /\ decoder_state = StateHeader

\* Whether packet i was written with a stream id and event ids of the plan.
Decodable(i) == ~UndefinedStream(i) /\ ~UndefinedEvent(i)

\* The mismatches of the header of packet i as the tracer wrote it: a magic
\* number that is not 0xC1FC1FC1, a UUID that is not the trace type UUID of
\* the schema.
MagicMismatch(i) ==
    /\ IsSome(Unwrap(sent[i].header).magic_number)
    /\ Unwrap(Unwrap(sent[i].header).magic_number) # <<193, 252, 31, 193>>
UuidMismatch(i) ==
    /\ IsSome(Unwrap(sent[i].header).trace_uuid)
    /\ IsSome(config.uuid)
    /\ Unwrap(Unwrap(sent[i].header).trace_uuid) # Unwrap(config.uuid)
Mismatches(i) ==
    (IF MagicMismatch(i) THEN <<"magic">> ELSE <<>>)
    \o (IF UuidMismatch(i) THEN <<"uuid">> ELSE <<>>)
MismatchesUpTo(n) == Concat([i \in 1..n |-> Mismatches(i)])

\* The packets whose header the decoder has read: those it returned and the
\* one it holds the header of.
HeadersDecoded ==
    Len(dout) + (IF decoder_state.tag \in {"PacketContext", "Events"} THEN 1 ELSE 0)

\* C15 (mismatches are warnings): a packet whose magic number is not
\* 0xC1FC1FC1 or whose UUID is not the trace type UUID of the schema is
\* returned by Parser::parse and by the decoder as Ok, with the magic number
\* and the UUID as they were written and the context and the event records of
\* the packet; the warnings logged are one for each mismatching field of each
\* header read, in order, and no other: none for a field that matches and
\* none for the UUID when the schema has no trace type UUID.
MismatchesAreWarnings ==
    /\ \A i \in 1..Len(presults) :
          (i <= Len(sent) /\ Decodable(i)) =>
              presults[i] = [tag |-> "Ok", pkt |-> sent[i], err |-> NoErr,
                             errval |-> 0, panic |-> NoPanic]
    /\ warnings.parse = MismatchesUpTo(Min(Len(presults), Len(sent)))
    /\ (decoder_state.tag # "NoDecoder" /\ AllOk(dout) /\ HeadersDecoded <= Len(sent)) =>
          /\ \A i \in 1..Len(dout) : dout[i] = presults[i]
          /\ warnings.decode = MismatchesUpTo(HeadersDecoded)

\* Both readers have returned a packet written with another magic number and
\* a packet written with another UUID, and logged the two warnings.
MismatchesWitness ==
    /\ Len(sent) = 2 /\ MagicMismatch(1) /\ UuidMismatch(2)
    /\ Len(presults) = 3 /\ presults[1].tag = "Ok" /\ presults[2].tag = "Ok"
    /\ warnings.parse = <<"magic", "uuid">>
    /\ Len(dout) = 2 /\ AllOk(dout)
    /\ warnings.decode = <<"magic", "uuid">>

\* ------------------------------------------------------ enumeration labels
\* Schemas with an enumeration payload member: two or three mappings with
\* distinct labels, written in any order, whose value specs are points and
\* inclusive ranges that overlap, contain or miss the values of the stream.
EnumLabels == {"A", "B", "C"}
EnumValueSpecs ==
    {<<Value(1)>>, <<InclusiveRange(1, 2)>>, <<Value(9), InclusiveRange(2, 5)>>,
     <<Value(-1)>>, <<InclusiveRange(-2, -1)>>}
EnumMappings ==
    UNION {{m \in [1..n -> EnumLabels \X EnumValueSpecs] :
               \A i, j \in 1..n : i # j => m[i][1] # m[j][1]} : n \in 2..3}

EnumCfg(ft) ==
    WithStream([BaseStream EXCEPT
        !.event_record_types =
            <<<<"init", EventRecordType(None, None, Some(<<Member("state", ft)>>))>>>>])
EnumConfigs ==
    {EnumCfg(UEnumFt(8, 8, m)) : m \in EnumMappings}
    \cup {EnumCfg(EnumFt(8, 8, m)) : m \in EnumMappings}

InitEnum ==
    \E c \in EnumConfigs : \E d \in BOOLEAN : \E pad \in 0..MaxPad :
        InitWith(c, <<[stream |-> 0, nevents |-> MaxEvents, pad |-> pad]>>, d)

SpecEnum == InitEnum /\ [][Next]_vars

\* The enumeration member of the configuration, the value the tracer wrote for
\* it in event record k of packet i, and the value a reader returned for it.
EnumFieldType ==
    Unwrap(config.data_stream_types[1][2].event_record_types[1][2].payload_field_type)[1]
        .field_type
EnumWritten(i, k) == sent[i].events[k].payload[1][2].items[1].v
EnumRead(out, k) == out.pkt.events[k].payload[1][2].items[1]

\* The mappings, by position in the schema, that contain a value.
MappingsContaining(v) ==
    {i \in 1..Len(EnumFieldType.mappings) :
        \E k \in 1..Len(EnumFieldType.mappings[i][2]) :
            LET s == EnumFieldType.mappings[i][2][k]
            IN  IF s.kind = "Value" THEN s.min = v ELSE s.min <= v /\ v <= s.max}

\* The label of the first of them in the order of the schema, and of the first
\* in the order of the labels.
FirstInSchemaOrder(v) ==
    IF MappingsContaining(v) = {} THEN None
    ELSE Some(EnumFieldType.mappings[
             CHOOSE i \in MappingsContaining(v) :
                 \A j \in MappingsContaining(v) : i <= j][1])
FirstInLabelOrder(v) ==
    IF MappingsContaining(v) = {} THEN None
    ELSE Some(EnumFieldType.mappings[
             CHOOSE i \in MappingsContaining(v) :
                 \A j \in MappingsContaining(v) :
                     NameRank(EnumFieldType.mappings[i][1])
                     <= NameRank(EnumFieldType.mappings[j][1])][1])

\* The calls that returned a packet of the stream, by both readers.
ReadOf(i) ==
    (IF i <= Len(presults) THEN {presults[i]} ELSE {})
    \cup (IF i <= Len(dout) THEN {dout[i]} ELSE {})

\* C16 (enumeration label lookup), as claimed: the label returned with an
\* enumeration value v is that of the first mapping, in the order of the
\* schema, one of whose value specs is v or is an inclusive range containing
\* v, and None when there is none; the value returned is the value written.
LabelOfFirstMappingInSchemaOrder ==
    \A i \in 1..Len(sent) : \A out \in ReadOf(i) :
        /\ out.tag = "Ok"
        /\ \A k \in 1..Len(sent[i].events) :
              /\ EnumRead(out, k).t = "Enumeration"
              /\ EnumRead(out, k).v = EnumWritten(i, k)
              /\ EnumRead(out, k).label = FirstInSchemaOrder(EnumWritten(i, k))

\* C16, amended: the label is that of the first such mapping in the order of
\* the labels (str::cmp), whatever the order of the schema.
LabelOfFirstMappingInLabelOrder ==
    \A i \in 1..Len(sent) : \A out \in ReadOf(i) :
        /\ out.tag = "Ok"
        /\ \A k \in 1..Len(sent[i].events) :
              /\ EnumRead(out, k).t = "Enumeration"
              /\ EnumRead(out, k).v = EnumWritten(i, k)
              /\ EnumRead(out, k).label = FirstInLabelOrder(EnumWritten(i, k))

\* Both readers have returned a value that two mappings contain, the one
\* written first in the schema having the greater label, and a value that no
\* mapping contains.
LabelOrderWitness ==
    /\ Len(presults) > 0 /\ Len(dout) > 0
    /\ presults[1].tag = "Ok" /\ dout[1].tag = "Ok"
    /\ Cardinality(MappingsContaining(EnumWritten(1, 1))) = 2
    /\ FirstInSchemaOrder(EnumWritten(1, 1)) # FirstInLabelOrder(EnumWritten(1, 1))
    /\ EnumRead(dout[1], 1).label = FirstInLabelOrder(EnumWritten(1, 1))
    /\ MappingsContaining(EnumWritten(1, 2)) = {}
    /\ EnumRead(dout[1], 2).label = None

\* ------------------------------------------------------------ id assignment
\* Schemas with three data stream types and three event record types of
\* different layouts, listed in every order.
ListingsOf(S) ==
    {p \in [1..Cardinality(S) -> S] : \A i, j \in 1..Cardinality(S) : i # j => p[i] # p[j]}

IdsEventRecordType(name) ==
    CASE name = "alpha" -> EventRecordType(None, None, None)
      [] name = "beta" ->
             EventRecordType(Some(3), None, Some(<<Member("code", UIntFt(8, 8))>>))
      [] OTHER ->
             EventRecordType(None, Some(<<Member("msg", StringFt)>>),
                 Some(<<Member("pair", StaticArrayFt(2, IntFt(16, 16)))>>))
IdsStream(name, enames) ==
    [(CASE name = "alpha" -> BaseStream
        [] name = "beta" ->
               [BaseStream EXCEPT !.end_timestamp_field_type = Some(UIntFt(8, 8))]
        [] OTHER ->
               [BaseStream EXCEPT !.sequence_number_field_type = Some(UIntFt(16, 16))])
     EXCEPT !.event_record_types =
                [k \in 1..Len(enames) |-> <<enames[k], IdsEventRecordType(enames[k])>>]]
IdsCfg(snames, enames) ==
    [BaseCfg EXCEPT
        !.data_stream_types =
            [k \in 1..Len(snames) |-> <<snames[k], IdsStream(snames[k], enames)>>]]
IdsConfigs ==
    {IdsCfg(sn, en) : sn \in ListingsOf({"alpha", "beta", "gamma"}),
                      en \in ListingsOf({"alpha", "beta", "gamma"})}

InitIds ==
    \E c \in IdsConfigs : \E d \in BOOLEAN :
        \E pk \in [stream : 0..2, nevents : 1..MaxEvents, pad : 0..MaxPad] :
            InitWith(c, <<pk>>, d)

SpecIds == InitIds /\ [][Next]_vars

\* The names of a map of the schema, and the lexicographic rank of one of them.
NamesOf(m) == {m[k][1] : k \in 1..Len(m)}
RankAmong(name, names) ==
    Cardinality({n \in names : NameRank(n) < NameRank(name)})

\* The event record types of the data stream type of a name.
EventRecordTypesOf(sname) ==
    config.data_stream_types[
        CHOOSE k \in 1..Len(config.data_stream_types) :
            config.data_stream_types[k][1] = sname][2].event_record_types

\* C17 (id assignment): the plan numbers the data stream types from 0 in the
\* lexicographic order of their names and, within each, the event record types
\* from 0 in the lexicographic order of their names: the ids are 0..n-1, one
\* for each name; a header returned carries the name of the stream type whose
\* rank is the stream id read, and an event record returned the name of the
\* event record type whose rank is the event id read.
IdsByNameRank ==
    /\ built.ok
    /\ LET streams == Unwrap(built.parser).streams
           snames == NamesOf(config.data_stream_types)
       IN  /\ DOMAIN streams = 1..Cardinality(snames)
           /\ \A sn \in snames :
                 LET stream == streams[RankAmong(sn, snames) + 1]
                     enames == NamesOf(EventRecordTypesOf(sn))
                 IN  /\ stream.stream_name = sn
                     /\ DOMAIN stream.events = 1..Cardinality(enames)
                     /\ \A en \in enames :
                           stream.events[RankAmong(en, enames) + 1].event_name = en
    /\ \A i \in 1..Len(sent) : \A out \in ReadOf(i) :
          /\ out.tag = "Ok"
          /\ Unwrap(out.pkt.header).stream_id = Unwrap(sent[i].header).stream_id
          /\ LET sn == Unwrap(out.pkt.header).stream_name
             IN  /\ sn \in NamesOf(config.data_stream_types)
                 /\ RankAmong(sn, NamesOf(config.data_stream_types))
                        = Unwrap(out.pkt.header).stream_id
                 /\ Len(out.pkt.events) = Len(sent[i].events)
                 /\ \A k \in 1..Len(out.pkt.events) :
                       /\ out.pkt.events[k].id = sent[i].events[k].id
                       /\ out.pkt.events[k].name \in NamesOf(EventRecordTypesOf(sn))
                       /\ RankAmong(out.pkt.events[k].name,
                                    NamesOf(EventRecordTypesOf(sn)))
                              = out.pkt.events[k].id

\* Both readers have returned a packet of the stream type listed last in the
\* schema and ranked first, with an event record of a type listed first and
\* ranked last.
IdsWitness ==
    /\ config.data_stream_types[3][1] = "alpha"
    /\ config.data_stream_types[1][2].event_record_types[1][1] = "gamma"
    /\ Len(presults) > 0 /\ Len(dout) > 0
    /\ \A out \in ReadOf(1) :
          /\ out.tag = "Ok"
          /\ Unwrap(out.pkt.header).stream_id = 0
          /\ Unwrap(out.pkt.header).stream_name = "alpha"
          /\ \E k \in 1..Len(out.pkt.events) :
                out.pkt.events[k].id = 2 /\ out.pkt.events[k].name = "gamma"

\* --------------------------------------------------------- TrackingInstant
\* Unsigned integers wider than the checker's are held as their bytes, most
\* significant first: a u64 is eight bytes, a u32 four.
ZeroExtend(b, n) == [i \in 1..(n - Len(b)) |-> 0] \o b
Truncate(b, n) == SubSeq(b, Len(b) - n + 1, Len(b))
AsU64(b) == IF Len(b) >= 8 THEN Truncate(b, 8) ELSE ZeroExtend(b, 8)

\* a < b, of two integers of the same width
LessThan(a, b) ==
    \E i \in 1..Len(a) : a[i] < b[i] /\ \A j \in 1..(i - 1) : a[j] = b[j]

\* a + 1 in the width of a, and whether it overflows
RECURSIVE wrapping_add_one(_)
wrapping_add_one(a) ==
    IF Len(a) = 0 THEN <<>>
    ELSE IF a[Len(a)] < 255 THEN [a EXCEPT ![Len(a)] = @ + 1]
    ELSE wrapping_add_one(SubSeq(a, 1, Len(a) - 1)) \o <<0>>
add_one_overflows(a) == \A i \in 1..Len(a) : a[i] = 255

\* a | b, of two u64 one of which has a zero byte wherever the other has not
BitOr(a, b) == [i \in 1..8 |-> IF a[i] = 0 THEN b[i] ELSE a[i]]

\* CyclesTracker: U8(v), U16(v), U32(v) or U64(v)
CyclesTracker(bits) == [bits |-> bits, v |-> [i \in 1..(bits \div 8) |-> 0]]
CyclesTracker_size_bits(t) == t.bits
CyclesTracker_reset(t) == CyclesTracker(t.bits)
\* CyclesTracker::set: `cycles as u8`, `as u16`, `as u32` keep the low bits
CyclesTracker_set(t, cycles) == [t EXCEPT !.v = Truncate(cycles, t.bits \div 8)]
CyclesTracker_as_cycles(t) == ZeroExtend(t.v, 8)
CyclesTracker_is_u64(t) == t.bits = 64

\* TrackingInstant::new
TrackingInstant_new(size) ==
    IF size \in {8, 16, 32, 64}
    THEN [ok |-> TRUE, v |-> [lower |-> CyclesTracker(size), upper |-> <<0, 0, 0, 0>>]]
    ELSE [ok |-> FALSE, v |-> "UnsupportedTimestampFieldType"]

\* TrackingInstant::reset and TrackingInstant::reset_to
TrackingInstant_reset(self) ==
    [lower |-> CyclesTracker_reset(self.lower), upper |-> <<0, 0, 0, 0>>]
TrackingInstant_reset_to(self, cycles, upper) ==
    [lower |-> CyclesTracker_set(self.lower, cycles), upper |-> upper]

\* TrackingInstant::as_timestamp:
\* (u64::from(self.upper) << self.lower.size_bits()) | self.lower.as_cycles()
TrackingInstant_as_timestamp(self) ==
    IF CyclesTracker_is_u64(self.lower) THEN CyclesTracker_as_cycles(self.lower)
    ELSE BitOr(AsU64(self.upper
                     \o [i \in 1..(CyclesTracker_size_bits(self.lower) \div 8) |-> 0]),
               CyclesTracker_as_cycles(self.lower))

\* TrackingInstant::elapsed: [self, ret, panic].  `self.upper += 1` panics in a
\* build with overflow checks when upper is u32::MAX, and wraps in one without.
TrackingInstant_elapsed(self, cycles, debug) ==
    IF CyclesTracker_is_u64(self.lower)
    THEN [self |-> [self EXCEPT !.lower = CyclesTracker_set(self.lower, cycles)],
          ret |-> TrackingInstant_as_timestamp(
                      [self EXCEPT !.lower = CyclesTracker_set(self.lower, cycles)]),
          panic |-> NoPanic]
    ELSE IF LessThan(cycles, CyclesTracker_as_cycles(self.lower))
            /\ add_one_overflows(self.upper) /\ debug
    THEN [self |-> self, ret |-> <<>>, panic |-> "attempt to add with overflow"]
    ELSE LET upper == IF LessThan(cycles, CyclesTracker_as_cycles(self.lower))
                      THEN wrapping_add_one(self.upper) ELSE self.upper
             next == [lower |-> CyclesTracker_set(self.lower, cycles),
                      upper |-> upper]
         IN  [self |-> next, ret |-> TrackingInstant_as_timestamp(next),
              panic |-> NoPanic]

\* The calls a program makes on its TrackingInstant.
MaxCalls == 4

\* The u64 a program passes as cycles: 0, 10, 16, the greatest value of each
\* width and the value 5 below it, 2^8.
Cycles ==
    {AsU64(b) : b \in {<<0>>, <<10>>, <<16>>, <<250>>, <<255>>, <<1, 0>>,
                       <<255, 250>>, <<255, 255>>,
                       <<255, 255, 255, 250>>, <<255, 255, 255, 255>>,
                       <<255, 255, 255, 255, 255, 255, 255, 250>>,
                       <<255, 255, 255, 255, 255, 255, 255, 255>>}}
\* The u32 a program passes as upper.
Uppers == {<<0, 0, 0, 0>>, <<0, 0, 0, 255>>, <<0, 0, 255, 255>>,
           <<255, 255, 255, 254>>, <<255, 255, 255, 255>>}

TrackerVars == <<config, debug_assertions, built, wire, sent, rpos, presults,
                 fed, buf, readable, decoder_state, dout, aligned, tracked,
                 warnings>>

InitTracker ==
    \E size \in Sizes : \E d \in BOOLEAN :
        /\ InitProgram(BaseCfg, <<>>, d)
        /\ instant = [NoInstant EXCEPT
                         !.lower = TrackingInstant_new(size).v.lower,
                         !.upper = TrackingInstant_new(size).v.upper,
                         !.call = "new"]
        /\ hint = NoCursor

Called == instant.call # "none" /\ instant.panic = NoPanic /\ instant.calls < MaxCalls

Elapsed(cycles) ==
    /\ Called
    /\ LET e == TrackingInstant_elapsed([lower |-> instant.lower,
                                         upper |-> instant.upper],
                                        cycles, debug_assertions)
       IN  instant' = [lower |-> e.self.lower, upper |-> e.self.upper,
                       call |-> "elapsed", arg |-> cycles, ret |-> e.ret,
                       panic |-> e.panic, calls |-> instant.calls + 1]
    /\ UNCHANGED <<TrackerVars, hint>>

ResetTo(cycles, upper) ==
    /\ Called
    /\ LET t == TrackingInstant_reset_to([lower |-> instant.lower,
                                          upper |-> instant.upper], cycles, upper)
       IN  instant' = [lower |-> t.lower, upper |-> t.upper,
                       call |-> "reset_to", arg |-> cycles, ret |-> <<>>,
                       panic |-> NoPanic, calls |-> instant.calls + 1]
    /\ UNCHANGED <<TrackerVars, hint>>

Reset ==
    /\ Called
    /\ LET t == TrackingInstant_reset([lower |-> instant.lower,
                                       upper |-> instant.upper])
       IN  instant' = [lower |-> t.lower, upper |-> t.upper,
                       call |-> "reset", arg |-> <<>>, ret |-> <<>>,
                       panic |-> NoPanic, calls |-> instant.calls + 1]
    /\ UNCHANGED <<TrackerVars, hint>>

NextTracker ==
    \/ \E cycles \in Cycles : Elapsed(cycles)
    \/ \E cycles \in Cycles : \E upper \in Uppers : ResetTo(cycles, upper)
    \/ Reset

SpecTracker == InitTracker /\ [][NextTracker]_vars

\* A u64 is a value of the width: its bytes above the width are zero.
InWidth(cycles, bits) == \A i \in 1..(8 - bits \div 8) : cycles[i] = 0

\* b = a + 1, of two u32: by their 16-bit halves.
HighHalf(a) == a[1] * 256 + a[2]
LowHalf(a) == a[3] * 256 + a[4]
IsSuccessor(a, b) ==
    \/ LowHalf(a) < 65535 /\ LowHalf(b) = LowHalf(a) + 1 /\ HighHalf(b) = HighHalf(a)
    \/ LowHalf(a) = 65535 /\ LowHalf(b) = 0 /\ HighHalf(a) < 65535
       /\ HighHalf(b) = HighHalf(a) + 1

\* C18 (rollover tracker): when elapsed(prev) is followed by elapsed(cur), on a
\* TrackingInstant of width 8, 16 or 32 and values of the width, the upper word
\* is one more than it was if cur < prev and is what it was otherwise, and the
\* call returns upper * 2^w + cur, the upper word above the w bits of cur; on
\* one of width 64 the upper word is what it was and the call returns cur.
RolloverTracked ==
    [][(instant.call = "elapsed" /\ instant'.call = "elapsed"
        /\ instant'.calls = instant.calls + 1)
       => IF instant.lower.bits = 64
          THEN /\ instant'.upper = instant.upper
               /\ instant'.ret = instant'.arg
               /\ instant'.panic = NoPanic
          ELSE (InWidth(instant.arg, instant.lower.bits)
                /\ InWidth(instant'.arg, instant.lower.bits))
               => /\ instant'.panic = NoPanic
                  /\ IF LessThan(instant'.arg, instant.arg)
                     THEN IsSuccessor(instant.upper, instant'.upper)
                     ELSE instant'.upper = instant.upper
                  /\ instant'.ret =
                         ZeroExtend(instant'.upper
                                    \o Truncate(instant'.arg,
                                                instant.lower.bits \div 8), 8)
      ]_vars

\* C19 (content-size invariant): while a conforming packet is decoded the
\* cursor is at most content_size_bits at every check after an event record,
\* so the debug assertion of parse_events never fails, and the loop ends when
\* the two are equal: a packet returned holds the event records of its content
\* and no other.
ContentSizeInvariant ==
    /\ \A out \in Results : out.panic # "cursor <= content_size_bits"
    /\ \A i \in 1..Len(sent) :
          /\ (i <= Len(presults) /\ presults[i].tag = "Ok") =>
                Len(presults[i].pkt.events) = Len(sent[i].events)
          /\ (i <= Len(dout) /\ AllOk(SubSeq(dout, 1, i))) =>
                Len(dout[i].pkt.events) = Len(sent[i].events)


\* ----------------------------------------------------------------- C20
\* The packet the blocking reader is in after its calls: each call that
\* follows calls that returned a packet begins at the first byte of a packet.
ParsePacketEnd == SumSizes(sent, Len(presults))

\* The bytes the decoder has taken from its buffer.
Taken == fed - Len(buf)

\* The first byte of the packet the decoder is reading, while every call that
\* returned has returned a packet.
DecodePacketStart == SumSizes(sent, Len(dout))

\* C20 (cursor tracks the packet offset): the cursor is 0 at the first byte of
\* every packet, so no call takes the first byte of the next packet with the
\* cursor of the packet before it; until the trailing bytes are dropped the
\* cursor is 8 times the bytes taken since the packet began; the cursor the
\* decoder keeps in PacketContext and Events is 8 times the bytes the stages
\* before took of the packet.
CursorTracksPacketOffset ==
    /\ tracked
    /\ (Len(presults) \in 1..Len(sent)) => rpos <= ParsePacketEnd
    /\ (AllOk(dout) /\ Len(dout) < Len(sent) /\ decoder_state.tag # "NoDecoder")
          => /\ Taken <= SumSizes(sent, Len(dout) + 1)
             /\ decoder_state.tag = "Header" => Taken = DecodePacketStart
             /\ decoder_state.tag \in {"PacketContext", "Events"}
                   => decoder_state.cursor = 8 * (Taken - DecodePacketStart)


\* ----------------------------------------------------------------- C21
\* The place of a PacketDecoderState in the cycle Header, PacketContext,
\* Events.
StageRank(state) ==
    IF state.tag = "Header" THEN 0 ELSE IF state.tag = "PacketContext" THEN 1 ELSE 2

\* The stage the decoder is in fails on the buffer it has.
StageFails(st) ==
    IF IsSome(st.end) THEN Unwrap(st.end).out.tag \in {"Err", "Panic"}
    ELSE Failed(Unwrap(st.next))

CurrentStageFails ==
    StageFails(Stage(Unwrap(built.parser), debug_assertions, decoder_state, buf,
                     0, TRUE, <<>>, TRUE))

\* The header and the context a state holds are those of the next state or of
\* the packet returned.
Carried(state, header, context) ==
    /\ StageRank(state) >= 1 => header = state.header
    /\ StageRank(state) = 2 => context = state.context

\* C21 (stage ordering): over a decode call the state moves along Header ->
\* PacketContext -> Events -> Header only: a call that returns Ok(None) leaves
\* the state where it was or further on in the same packet, with the header
\* and the context it held; PacketContext holds a header, Events a header and
\* a context; a packet is returned only by a call that leaves Events for
\* Header, with the header and the context of the states before; the state
\* goes from PacketContext to Header only through Events.
StageOrdering ==
    [][(decoder_state.tag # "NoDecoder" /\ readable) =>
          /\ StageRank(decoder_state') >= 1 => IsSome(decoder_state'.header)
          /\ StageRank(decoder_state') = 2 => IsSome(decoder_state'.context)
          /\ Len(dout') = Len(dout) =>
                /\ StageRank(decoder_state') >= StageRank(decoder_state)
                /\ Carried(decoder_state, decoder_state'.header,
                           decoder_state'.context)
          /\ (Len(dout') > Len(dout) /\ dout'[Len(dout')].tag = "Ok") =>
                /\ decoder_state' = StateHeader
                /\ IsSome(dout'[Len(dout')].pkt.header)
                /\ IsSome(dout'[Len(dout')].pkt.context)
                /\ Carried(decoder_state, dout'[Len(dout')].pkt.header,
                           dout'[Len(dout')].pkt.context)
          /\ (Len(dout') > Len(dout) /\ dout'[Len(dout')].tag = "Err"
                /\ decoder_state.tag = "PacketContext") =>
                ~CurrentStageFails
      ]_vars


\* ----------------------------------------------------------------- C22
\* A program that keeps an AlignedCursor, as PacketHeaderParser::new and
\* PacketContextParser::new do for their wire_size_hint and StreamReader for
\* its cursor, and calls align_to, increment and aligned_increment on it.
MaxCursor == 192

CursorCalled == hint.bit_index <= MaxCursor

AlignTo(align) ==
    /\ CursorCalled
    /\ hint' = [bit_index |-> AlignedCursor_align_to(hint.bit_index, align).cursor,
                call |-> "align_to", arg |-> <<align>>,
                ret |-> AlignedCursor_align_to(hint.bit_index, align).padding]
    /\ UNCHANGED <<TrackerVars, instant>>

Increment(size) ==
    /\ CursorCalled
    /\ hint' = [bit_index |-> AlignedCursor_increment(hint.bit_index, size),
                call |-> "increment", arg |-> <<size>>, ret |-> 0]
    /\ UNCHANGED <<TrackerVars, instant>>

AlignedIncrement(desc) ==
    /\ CursorCalled
    /\ hint' = [bit_index |-> AlignedCursor_aligned_increment(hint.bit_index, desc),
                call |-> "aligned_increment",
                arg |-> <<desc.size, desc.alignment>>, ret |-> 0]
    /\ UNCHANGED <<TrackerVars, instant>>

InitCursor ==
    \E d \in BOOLEAN : InitProgram(BaseCfg, <<>>, d)
                          /\ instant = NoInstant /\ hint = NoCursor

NextCursor ==
    \/ \E align \in Sizes : AlignTo(align)
    \/ \E size \in Sizes : Increment(size)
    \/ \E size \in Sizes : \E align \in Sizes :
          AlignedIncrement([size |-> size, alignment |-> align])

SpecCursor == InitCursor /\ [][NextCursor]_vars

\* C22 (align_to): on a cursor that is a multiple of 8, align_to(a) moves the
\* cursor to the smallest multiple of a that is not below it and returns the
\* padding, a multiple of 8 below a; no call of align_to, increment or
\* aligned_increment moves the cursor back; an align_to(a) that follows an
\* align_to(a) returns 0 and leaves the cursor where it is.
AlignToNextMultiple ==
    [][/\ hint.bit_index % 8 = 0
       /\ hint'.bit_index % 8 = 0
       /\ hint'.bit_index >= hint.bit_index
       /\ hint'.call = "align_to" =>
             /\ hint'.bit_index % hint'.arg[1] = 0
             /\ hint'.ret = hint'.bit_index - hint.bit_index
             /\ hint'.ret % 8 = 0
             /\ hint'.ret < hint'.arg[1]
             /\ \A m \in hint.bit_index..hint'.bit_index :
                   m % hint'.arg[1] = 0 => m = hint'.bit_index
       /\ (hint.call = "align_to" /\ hint'.call = "align_to"
              /\ hint'.arg = hint.arg) =>
             /\ hint'.ret = 0
             /\ hint'.bit_index = hint.bit_index
      ]_vars

\* align_to(64) has moved a cursor from 72 to 128 and returned 56.
AlignToWitness ==
    /\ hint.call = "align_to"
    /\ hint.arg = <<64>>
    /\ hint.bit_index = 128
    /\ hint.ret = 56


\* ----------------------------------------------------------------- C23
\* The alignments of the members of a structure of the schema, and of the
\* feature fields of a packet context.
MemberAlignments(members) ==
    {FieldType_alignment(members[i].field_type) : i \in 1..Len(members)}

OptAlignment(oft) == IF IsSome(oft) THEN {Unwrap(oft).alignment} ELSE {}

FeatureAlignments(st) ==
    {st.total_size_field_type.alignment, st.content_size_field_type.alignment}
    \cup OptAlignment(st.beginning_timestamp_field_type)
    \cup OptAlignment(st.end_timestamp_field_type)
    \cup OptAlignment(st.discarded_event_records_counter_snapshot_field_type)
    \cup OptAlignment(st.sequence_number_field_type)

\* a is the greatest of the alignments, or 8 when there is none.
GreatestOr8(a, alignments) ==
    IF alignments = {} THEN a = 8
    ELSE a \in alignments /\ \A b \in alignments : b <= a

\* The plan of a structure has the alignment of the structure of the schema.
StructPlanAligned(oplan, ostruct) ==
    /\ IsSome(oplan) <=> IsSome(ostruct)
    /\ IsSome(ostruct) =>
          GreatestOr8(Unwrap(oplan).alignment, MemberAlignments(Unwrap(ostruct)))

CtxFeatures == {"beginning", "end", "discarded", "sequence"}

CtxStream(features, extra) ==
    [BaseStream EXCEPT
        !.beginning_timestamp_field_type =
            IF "beginning" \in features THEN Some(UIntFt(32, 32)) ELSE None,
        !.end_timestamp_field_type =
            IF "end" \in features THEN Some(UIntFt(16, 16)) ELSE None,
        !.discarded_event_records_counter_snapshot_field_type =
            IF "discarded" \in features THEN Some(UIntFt(8, 8)) ELSE None,
        !.sequence_number_field_type =
            IF "sequence" \in features THEN Some(UIntFt(64, 64)) ELSE None,
        !.packet_context_field_type_extra_members =
            IF extra THEN <<Member("cpu", UIntFt(8, 8)), Member("gen", IntFt(16, 16))>>
            ELSE <<>>]

CtxConfigs ==
    {WithStream(CtxStream(features, extra)) :
        features \in SUBSET CtxFeatures, extra \in BOOLEAN}

InitCtx ==
    \E c \in CtxConfigs : \E d \in BOOLEAN :
    \E pkts \in [1..2 -> [stream : {0}, nevents : {1}, pad : {0, MaxPad}]] :
        InitWith(c, pkts, d)

SpecCtx == InitCtx /\ [][Next]_vars

\* The fields of the packet context of a schema in the order of the claim,
\* each <<size, alignment>>: the two sizes, the features there are, the extra
\* members.
OptField(oft) ==
    IF IsSome(oft) THEN <<<<Unwrap(oft).size, Unwrap(oft).alignment>>>> ELSE <<>>

ContextFields(st) ==
    <<<<st.total_size_field_type.size, st.total_size_field_type.alignment>>,
      <<st.content_size_field_type.size, st.content_size_field_type.alignment>>>>
    \o OptField(st.beginning_timestamp_field_type)
    \o OptField(st.end_timestamp_field_type)
    \o OptField(st.discarded_event_records_counter_snapshot_field_type)
    \o OptField(st.sequence_number_field_type)
    \o [i \in 1..Len(st.packet_context_field_type_extra_members) |->
           <<FieldType_size(st.packet_context_field_type_extra_members[i].field_type),
             FieldType_alignment(
                 st.packet_context_field_type_extra_members[i].field_type)>>]

\* The bit a layout ends at: each field begins on the next multiple of its
\* alignment and takes its size.
RoundUp(c, a) == ((c + a - 1) \div a) * a

RECURSIVE LayoutEnd(_, _)
LayoutEnd(c, fields) ==
    IF Len(fields) = 0 THEN c
    ELSE LayoutEnd(RoundUp(c, fields[1][2]) + fields[1][1], Tail(fields))

\* The end of the packet context of the schema's stream type, from the end of
\* the packet header.
ContextEnd ==
    LayoutEnd(RoundUp(Unwrap(built.parser).pkt_header.wire_size_hint,
                      PacketContextAlignment(config.data_stream_types[1][2])),
              ContextFields(config.data_stream_types[1][2]))

\* The features a context returned has are those of the schema.
FeaturesOf(context) ==
    {f \in CtxFeatures :
        IsSome(CASE f = "beginning" -> context.beginning_timestamp
                 [] f = "end" -> context.end_timestamp
                 [] f = "discarded" -> context.events_discarded
                 [] f = "sequence" -> context.sequence_number)}

SchemaFeatures ==
    {f \in CtxFeatures :
        IsSome(CASE f = "beginning" ->
                        config.data_stream_types[1][2].beginning_timestamp_field_type
                 [] f = "end" ->
                        config.data_stream_types[1][2].end_timestamp_field_type
                 [] f = "discarded" ->
                        config.data_stream_types[1][2]
                            .discarded_event_records_counter_snapshot_field_type
                 [] f = "sequence" ->
                        config.data_stream_types[1][2].sequence_number_field_type)}

\* C24 (packet context field order): the context is read as total size,
\* content size, then the features the plan has in the order beginning
\* timestamp, end timestamp, discarded event records counter, sequence number,
\* then the extra members in plan order: every context returned is the one
\* written in that layout, a feature the plan has not is None and takes no
\* byte, the decoder leaves the context stage with the cursor at the end of
\* that layout, and the wire_size_hint of the plan is the end of that layout.
PacketContextOrder ==
    /\ built.ok
    /\ Unwrap(built.parser).streams[1].packet_context.wire_size_hint = ContextEnd
    /\ \A i \in 1..Len(sent) : \A out \in ReadOf(i) :
          /\ out.tag = "Ok"
          /\ out.pkt.context = sent[i].context
          /\ FeaturesOf(Unwrap(out.pkt.context)) = SchemaFeatures
    /\ decoder_state.tag = "Events" => decoder_state.cursor = ContextEnd

\* Both readers have returned the second packet of a stream whose context has
\* the beginning timestamp, the discarded event records counter and the
\* sequence number, not the end timestamp, and two extra members.
PacketContextOrderWitness ==
    /\ SchemaFeatures = {"beginning", "discarded", "sequence"}
    /\ Len(config.data_stream_types[1][2].packet_context_field_type_extra_members) = 2
    /\ Len(presults) >= 2 /\ presults[2].tag = "Ok"
    /\ Len(dout) = 2 /\ dout[2].tag = "Ok"
    /\ Unwrap(dout[2].pkt.context).end_timestamp = None
    /\ Unwrap(dout[2].pkt.context).sequence_number = Some(1)
    /\ Len(Unwrap(dout[2].pkt.context).extra_members) = 2


\* ----------------------------------------------------------------- C25
\* Schemas whose one event record type has a payload of an 8 bit member and a
\* dynamic array, over element field types of every alignment, on streams of
\* two packets of one or two event records: the arrays written have 1, 2, 2
\* and 0 elements.
ArrElements ==
    {UIntFt(8, 8), UIntFt(16, 16), UIntFt(8, 32), IntFt(16, 64), UIntFt(32, 16),
     StringFt}

ArrCfg(element) ==
    WithStream([BaseStream EXCEPT
        !.event_record_types =
            <<<<"init",
                EventRecordType(None, None,
                    Some(<<Member("tag", UIntFt(8, 8)),
                           Member("vals", DynamicArrayFt(element))>>))>>>>])

ArrConfigs == {ArrCfg(element) : element \in ArrElements}

InitArr ==
    \E c \in ArrConfigs : \E d \in BOOLEAN :
    \E pkts \in [1..2 -> [stream : {0}, nevents : 1..MaxEvents, pad : {0}]] :
        InitWith(c, pkts, d)

SpecArr == InitArr /\ [][Next]_vars

\* The dynamic array member of the k-th event record of a packet.
ValsOf(pkt, k) == pkt.events[k].payload[2][2]

\* The length the tracer wrote before the array of the k-th event record of
\* the i-th packet.
LengthWritten(i, k) == SampleLength(EventSeed(i, k))

\* C25 (dynamic arrays): a dynamic array member is read as a 32 bit unsigned
\* length at 8 bit alignment, whatever the alignment of the elements, then
\* the padding to the element alignment, then that many elements, each on the
\* element alignment: every packet returned holds, for each event record, an
\* Array of exactly the length written (none for the length 0) with the
\* elements written, each read began on its alignment, and the bytes taken are
\* those of that layout.
DynamicArrayDecoding ==
    /\ built.ok
    /\ aligned
    /\ \A i \in 1..Len(sent) : \A out \in ReadOf(i) :
          /\ out.tag = "Ok"
          /\ out.pkt = sent[i]
          /\ \A k \in 1..Len(out.pkt.events) :
                /\ ValsOf(out.pkt, k).tag = "Array"
                /\ Len(ValsOf(out.pkt, k).items) = LengthWritten(i, k)
                /\ LengthWritten(i, k) = 0 => ValsOf(out.pkt, k) = Array(<<>>)
    /\ (Len(presults) \in 1..Len(sent)) => rpos = SumSizes(sent, Len(presults))
    /\ (decoder_state.tag = "Header") => Taken = SumSizes(sent, Len(dout))

\* Both readers have returned the second packet of a stream whose arrays have
\* elements aligned to 32 bits: its first array has two elements and its
\* second none.
DynamicArrayWitness ==
    /\ config = ArrCfg(UIntFt(8, 32))
    /\ Len(presults) >= 2 /\ presults[2].tag = "Ok"
    /\ Len(dout) = 2 /\ dout[2].tag = "Ok"
    /\ Len(dout[2].pkt.events) = 2
    /\ Len(ValsOf(dout[2].pkt, 1).items) = 2
    /\ ValsOf(dout[2].pkt, 2) = Array(<<>>)
    /\ ValsOf(presults[2].pkt, 2) = Array(<<>>)


\* ----------------------------------------------------------------- C26
\* A decode call is made and returns Err.
DecodeErr ==
    /\ DecodeCall
    /\ Len(dout') = Len(dout) + 1
    /\ dout'[Len(dout')].tag = "Err"

\* What the next decode call returns and leaves, on a decoder and a buffer.
NextDecode(state, src) ==
    PacketDecoder_decode(Unwrap(built.parser), debug_assertions, state, src)

\* C26 (an error resets the decoder): a decode call that returns Err leaves
\* the decoder in Header, with no header, no context and the cursor 0; the
\* bytes the call took stay taken (the buffer left is the end of the buffer
\* the call began with, and at the first error of a stream the decoder has
\* taken the bytes the blocking reader has taken when its call fails); the
\* next call reads the bytes after them as the header of a packet.
ErrorResetsDecoder ==
    [][DecodeErr =>
          /\ decoder_state'.tag = "Header"
          /\ decoder_state'.header = None
          /\ decoder_state'.context = None
          /\ decoder_state'.cursor = 0
          /\ readable'
          /\ Len(buf') <= Len(buf)
          /\ buf' = SubSeq(buf, Len(buf) - Len(buf') + 1, Len(buf))
          /\ buf' = SubSeq(wire, fed - Len(buf') + 1, fed)
          /\ AllOk(dout) =>
                /\ dout'[Len(dout')] = presults[Len(dout')]
                /\ fed - Len(buf') = rpos
                /\ rpos > SumSizes(sent, Len(dout))
          /\ NextDecode(decoder_state', buf') =
                 NextDecode(StateHeader, SubSeq(wire, Taken' + 1, fed))
      ]_vars

\* The decoder has returned Err(UndefinedEventId) for the second packet of a
\* stream, from the Events stage after it had read the packet's header and
\* context, and has been called again since: it is in Header, and the bytes of
\* the packet after the event header that failed are in its buffer.
ErrorResetsWitness ==
    /\ Len(sent) >= 2
    /\ Len(dout) >= 2
    /\ dout[1].tag = "Ok"
    /\ dout[2].err = "UndefinedEventId"
    /\ decoder_state = StateHeader
    /\ Taken = rpos
    /\ Taken < SumSizes(sent, 2)
    /\ Len(buf) > 0


\* ----------------------------------------------------------------- C27
\* Streams of one or two packets of at least one event record, each written
\* as the schema says, with or without padding, or with a packet size that is
\* less than its content size.
SizeChoices ==
    [stream : {0}, nevents : 1..MaxEvents, pad : {0, MaxPad}, fault : {"none"}]
    \cup [stream : {0}, nevents : 1..MaxEvents, pad : {0},
          fault : {"content-size", "total-size"}]

SizeSeqs == UNION {[1..n -> SizeChoices] : n \in 1..MaxPackets}

InitSizes ==
    \E c \in {BaseCfg, CfgFault} : \E pkts \in SizeSeqs : \E d \in BOOLEAN :
        InitWith(c, pkts, d)

SpecSizes == InitSizes /\ [][Next]_vars

\* Packet i was written with a packet size less than its content size, and
\* the packets before it conform.
MalformedSizes(i) ==
    Unwrap(sent[i].context).content_size_bits > Unwrap(sent[i].context).packet_size_bits

FirstMalformed(i) ==
    /\ MalformedSizes(i)
    /\ \A j \in 1..(i - 1) : ~MalformedSizes(j)

\* The bytes written of the first n packets: a packet with malformed sizes is
\* written without padding.
RECURSIVE WrittenBytes(_)
WrittenBytes(n) ==
    IF n = 0 THEN 0
    ELSE WrittenBytes(n - 1)
         + (IF MalformedSizes(n) THEN Unwrap(sent[n].context).content_size_bits \div 8
            ELSE PacketContext_packet_size(Unwrap(sent[n].context)))

\* The panics of the two subtractions.
SizePanics == {"packet_size_bits - content_size_bits", "packet_size - cursor_bytes"}

\* C27 (no unsigned underflow on malformed sizes): for a packet whose context
\* has content_size_bits > packet_size_bits, or a packet_size_bits of less than
\* the header and the context, neither packet_size_bits - content_size_bits in
\* parse_events nor packet_size() - cursor_bytes() in the Events stage is
\* evaluated with a negative result: no call panics in a subtraction, the call
\* that reads the packet returns Err, the blocking reader has not read a
\* wrapped count of bytes past the packet, and the decoder does not wait for
\* a wrapped count of bytes.
NoSizeUnderflow ==
    /\ \A out \in Results : out.panic \notin SizePanics
    /\ \A i \in 1..Len(sent) :
          FirstMalformed(i) =>
             /\ i <= Len(presults) =>
                   /\ presults[i].tag = "Err"
                   /\ rpos <= WrittenBytes(i)
             /\ (Len(dout) >= i \/ Drained) =>
                   /\ Len(dout) >= i
                   /\ dout[i].tag = "Err"


\* ----------------------------------------------------------------- C28
\* The stage steps a decode call takes from a state on a buffer: a stage that
\* ends the call is the last; the Events stage is the last.
RECURSIVE StageSteps(_, _)
StageSteps(state, src) ==
    LET st == Stage(Unwrap(built.parser), debug_assertions, state, src, 0, TRUE,
                    <<>>, TRUE)
    IN  IF IsSome(st.end) \/ Failed(Unwrap(st.next)) \/ state.tag = "Events" THEN 1
        ELSE 1 + StageSteps(
                     IF state.tag = "Header"
                     THEN StatePacketContext(Unwrap(st.next).val,
                                             Unwrap(st.next).cursor)
                     ELSE StateEvents(Unwrap(state.header), Unwrap(st.next).val,
                                      Unwrap(st.next).cursor),
                     SubSeq(Unwrap(st.next).src, Unwrap(st.next).pos + 1,
                            Len(Unwrap(st.next).src)))

\* The bytes of the event header of the stream type of a packet.
EventHeaderBytes(pkt) ==
    LET h == Unwrap(built.parser).streams[Unwrap(pkt.header).stream_id + 1]
                 .event_header
    IN  (h.event_id.size + h.timestamp.size) \div 8

\* C28 (termination): every Parser::parse call returns Ok(Packet) or Err; each
\* turn of the loop of parse_events takes at least the bytes of an event
\* header, so a packet returned has no more event records than its content
\* has event headers, its loop having ended with the cursor at
\* content_size_bits, and a call whose loop does not end so returns the Io
\* error of a source that is exhausted; every decode call returns Ok or Err or
\* Ok(None) after at most three stage steps.
Termination ==
    /\ \A out \in Results :
          /\ out.tag \in {"Ok", "Err"}
          /\ out.tag = "Ok" =>
                Len(out.pkt.events) * EventHeaderBytes(out.pkt)
                    <= Unwrap(out.pkt.context).content_size_bits \div 8
    /\ \A i \in 1..Len(presults) :
          (presults[i].tag = "Err" /\ presults[i].err # "UndefinedStreamId") =>
              /\ presults[i].err = "Io"
              /\ rpos = Len(wire)
    /\ DecodeCall => StageSteps(decoder_state, buf) <= 3


\* ----------------------------------------------------------------- C29
\* Schemas whose one event record type has a payload of an enumeration, a
\* static array and a dynamic array, the arrays over integer and enumeration
\* element field types with a display base that is not the default and, for
\* the enumerations, mappings that hold the values written.
PostMappings == <<<<"LOW", <<InclusiveRange(-8, 8)>>>>, <<"HIGH", <<Value(9)>>>>>>

PostElements ==
    {UEnumFt(8, 8, PostMappings),
     [EnumFt(8, 8, PostMappings) EXCEPT !.preferred_display_base = "Hexadecimal"],
     [UIntFt(8, 8) EXCEPT !.preferred_display_base = "Hexadecimal"],
     [IntFt(16, 16) EXCEPT !.preferred_display_base = "Hexadecimal"]}

PostCfg(element) ==
    WithStream([BaseStream EXCEPT
        !.event_record_types =
            <<<<"init",
                EventRecordType(None, None,
                    Some(<<Member("state", element),
                           Member("codes", StaticArrayFt(2, element)),
                           Member("vals", DynamicArrayFt(element))>>))>>>>])

InitPost ==
    \E element \in PostElements : \E d \in BOOLEAN :
    \E pkts \in [1..2 -> [stream : {0}, nevents : 1..MaxEvents, pad : {0, MaxPad}]] :
        InitWith(PostCfg(element), pkts, d)

SpecPost == InitPost /\ [][Next]_vars

\* The payload members of the schema, and the kind of value an element field
\* type is read as.
PostMembers ==
    Unwrap(config.data_stream_types[1][2].event_record_types[1][2].payload_field_type)

IntegerKind(ft) ==
    IF ft.class \in {"unsigned-integer", "unsigned-enumeration"}
    THEN "UnsignedInteger" ELSE "SignedInteger"

IsArrayFt(ft) == ft.class \in {"static-array", "dynamic-array"}
IsEnumFt(ft) == ft.class \in {"unsigned-enumeration", "signed-enumeration"}

\* C29 (array members are not post-processed): in every packet returned, a
\* member that is a primitive integer has the display base of its field type,
\* and one that is a primitive enumeration is an Enumeration with that base
\* and the label of its value; a member that is a static or a dynamic array
\* is the Array as read: each element is an UnsignedInteger or a
\* SignedInteger, by the signedness of the element field type, with the base
\* Decimal and no label, whatever the display base and the mappings of the
\* element field type.
ArraysNotPostProcessed ==
    /\ built.ok
    /\ \A i \in 1..Len(sent) : \A out \in ReadOf(i) :
          /\ out.tag = "Ok"
          /\ out.pkt = sent[i]
          /\ \A k \in 1..Len(out.pkt.events) : \A j \in 1..Len(PostMembers) :
                LET ft == PostMembers[j].field_type
                    fv == out.pkt.events[k].payload[j][2]
                IN  IF IsArrayFt(ft)
                    THEN /\ fv.tag = "Array"
                         /\ \A e \in 1..Len(fv.items) :
                               /\ fv.items[e].t = IntegerKind(Unwrap(ft.element_field_type))
                               /\ fv.items[e].base = "Decimal"
                               /\ fv.items[e].label = None
                    ELSE /\ fv.tag = "Primitive"
                         /\ fv.items[1].base = ft.preferred_display_base
                         /\ fv.items[1].t = IF IsEnumFt(ft) THEN "Enumeration"
                                            ELSE IntegerKind(ft)
                         /\ IsEnumFt(ft) =>
                               fv.items[1].label =
                                   EnumerationMappings_label(sorted_by_key(ft.mappings),
                                                             fv.items[1].v)

\* Both readers have returned a packet of a schema with enumeration elements
\* of the base Hexadecimal: its member "state" is an Enumeration with the label
\* LOW in that base, and the elements of its static and its dynamic array, of
\* the same value, are UnsignedInteger values in Decimal.
ArraysNotPostProcessedWitness ==
    /\ config = PostCfg(UEnumFt(8, 8, PostMappings))
    /\ Len(presults) >= 1 /\ presults[1].tag = "Ok"
    /\ Len(dout) >= 1 /\ dout[1].tag = "Ok"
    /\ \E k \in 1..Len(dout[1].pkt.events) :
          LET p == dout[1].pkt.events[k].payload
          IN  /\ p[1][2] = Primitive(Enumeration(p[1][2].items[1].v, "Hexadecimal",
                                                 Some("LOW")))
              /\ Len(p[3][2].items) = 2
              /\ p[2][2].items[1] = UnsignedInteger(p[1][2].items[1].v, "Decimal")
              /\ p[3][2].items[2] = UnsignedInteger(p[1][2].items[1].v, "Decimal")
              /\ presults[1].pkt.events[k].payload = p


\* ----------------------------------------------------------------- C30
\* The timestamp of the TrackingInstant after the step.
TimestampAfter ==
    TrackingInstant_as_timestamp([lower |-> instant'.lower, upper |-> instant'.upper])

\* A call is made on a TrackingInstant of width 8, 16 or 32.
TrackerCall(name) ==
    /\ instant'.call = name
    /\ instant'.calls = instant.calls + 1
    /\ instant.lower.bits # 64

\* C30 (rollover tracker monotonicity): on a TrackingInstant of width 8, 16 or
\* 32, an elapsed(c) call with c of the width returns a timestamp whose low
\* bits of the width are c and which is not less than the timestamp the
\* elapsed call before it returned (the calls of a program are fewer than 2^32,
\* and so are its rollovers since the last reset); reset() leaves the
\* timestamp 0 and reset_to(c, u) leaves u * 2^w + (c mod 2^w).
TrackerMonotone ==
    [][/\ (TrackerCall("elapsed") /\ InWidth(instant'.arg, instant.lower.bits)) =>
             /\ instant'.panic = NoPanic
             /\ Truncate(instant'.ret, instant.lower.bits \div 8)
                    = Truncate(instant'.arg, instant.lower.bits \div 8)
             /\ instant'.ret = TimestampAfter
             /\ (instant.call = "elapsed" /\ InWidth(instant.arg, instant.lower.bits))
                    => ~LessThan(instant'.ret, instant.ret)
       /\ TrackerCall("reset") => TimestampAfter = AsU64(<<0>>)
       /\ TrackerCall("reset_to") =>
             TimestampAfter =
                 ZeroExtend(instant'.upper
                            \o Truncate(instant'.arg, instant.lower.bits \div 8), 8)
      ]_vars

====
